---- MODULE Spec2Model ----
(***************************************************************************)
(* Model of the cohesion compiler back end: the CAST (control-flow IR),    *)
(* helper extraction (cast.remove_python), the CAST -> ASFAST transform    *)
(* (asfast.build), pass elimination (asfast.remove_pass), graph building   *)
(* and the JSON shape of the emitted states.                               *)
(*                                                                         *)
(* A compilation is a pipeline of passes (coco.coco); every pass is one    *)
(* action, and the input program is drawn in Init from a size-bounded set  *)
(* of CAST trees.                                                          *)
(***************************************************************************)
EXTENDS Integers, Sequences, FiniteSets, TLC

(***************************************************************************)
(* Bounds of the model.                                                    *)
(***************************************************************************)
\* number of CAST statement nodes in the body of the workflow function
MaxSize == 3
\* number of except clauses of one try
MaxHandlers == 2
\* number of keyword arguments of one call
MaxKeywords == 2
\* number of statements in the body of one Python function
MaxStmts == 2
\* number of walks of the coloring loop the model follows
MaxWalks == 40
\* number of fresh-name requests made of one name set
MaxRequests == 3

(***************************************************************************)
(* Strings.  An identifier or state name is the sequence of its            *)
(* "_"-separated parts: "env_init" is <<"env", "init">>, "foo_1" is        *)
(* <<"foo", "1">>, "" is <<>>.  A JSON path is the sequence of its         *)
(* "."-separated parts: "$.env.x" is <<"$", "env", "x">>.                  *)
(***************************************************************************)
Nm(b) == <<b>>
\* "%d" % n
Decimal ==
    <<"1", "2", "3", "4", "5", "6", "7", "8", "9", "10", "11", "12", "13", "14", "15", "16">>
ToStr(n) == IF n = 0 THEN "0" ELSE Decimal[n]
\* "%s_%s" % (prefix, n)
Suffixed(prefix, n) == Append(prefix, ToStr(n))
\* the empty string "", the value None, and "attribute not defined"
EmptyStr == <<>>
NoneVal == <<"<None>">>
NoAttr == <<"<noattr>">>
\* Python truthiness of a string-or-None value
Truthy(v) == v \notin {EmptyStr, NoneVal, NoAttr}
\* None for an optional integer
NoneNum == -1
TruthyNum(n) == n \notin {NoneNum, 0}
\* None for an optional variable name
NoVar == "<None>"
\* "%s" % v for an optional variable name
Fmt(v) == IF v = NoVar THEN "None" ELSE v
\* None and a value for an optional list or dict
NoneList == [none |-> TRUE, items |-> <<>>]
ListOf(items) == [none |-> FALSE, items |-> items]

(***************************************************************************)
(* CAST nodes.  One record shape for every node class; a field a class     *)
(* does not have keeps its default.  `body' is Def.body, WhileLoop.body,    *)
(* Try.body and If.thenBody; `orelse' is If.elseBody; `value' holds the    *)
(* right-hand side node of an Assign; `ret' is Return.value.               *)
(***************************************************************************)
CastNode(k) ==
    [k |-> k, name |-> EmptyStr, args |-> <<>>, func |-> <<>>, target |-> "",
     value |-> <<>>, ret |-> "", test |-> "", body |-> <<>>, orelse |-> <<>>,
     handlers |-> <<>>, timeoutSec |-> NoneNum, heartbeatSec |-> NoneNum,
     retry |-> <<>>, astNodes |-> <<>>]

Module(body) == [CastNode("Module") EXCEPT !.body = body]
PythonAST(astNodes) == [CastNode("PythonAST") EXCEPT !.astNodes = astNodes]
WhileLoop(test, body) == [CastNode("WhileLoop") EXCEPT !.test = test, !.body = body]
Def(name, args, body) == [CastNode("Def") EXCEPT !.name = name, !.args = args, !.body = body]
Call(func, args) == [CastNode("Call") EXCEPT !.func = func, !.args = args]
handler(types, name, body) == [types |-> types, name |-> name, body |-> body]
Try(body, handlers) == [CastNode("Try") EXCEPT !.body = body, !.handlers = handlers]
Assign(target, value) == [CastNode("Assign") EXCEPT !.target = target, !.value = <<value>>]
If(test, thenBody, elseBody) ==
    [CastNode("If") EXCEPT !.test = test, !.body = thenBody, !.orelse = elseBody]
Return(value) == [CastNode("Return") EXCEPT !.ret = value]

(***************************************************************************)
(* The input programs.                                                     *)
(***************************************************************************)
\* retry = [{Error: "States.ALL", IntervalSeconds: 1, MaxAttempts: 3, BackoffRate: 2}]
RetryAll ==
    <<[ErrorEquals |-> <<"States.ALL">>, IntervalSeconds |-> 1,
       MaxAttempts |-> 3, BackoffRate |-> 2]>>
\* x = cohesion.Lambda.foo(a, timeoutSeconds = 100, heartbeatSeconds = 10, retry = [...])
LambdaAssign ==
    Assign("x", [Call(<<Nm("cohesion"), Nm("Lambda"), Nm("foo")>>, <<"a">>)
                   EXCEPT !.timeoutSec = 100, !.heartbeatSec = 10, !.retry = RetryAll])
\* cohesion.activity.foo_1(timeout = 120)
ActivityVoid ==
    [Call(<<Nm("cohesion"), Nm("activity"), Suffixed(Nm("foo"), 1)>>, <<>>)
       EXCEPT !.timeoutSec = 120]
\* a run of blue statements
RawBlock == PythonAST(<<"stmt">>)
\* return v
ReturnV == Return("v")
\* return
ReturnNone == Return(NoVar)
\* break
Break == CastNode("Break")
\* x = <blue expression>
AssignRaw == Assign("x", RawBlock)

Atoms(inLoop) ==
    {LambdaAssign, ActivityVoid, RawBlock, ReturnV} \cup (IF inLoop THEN {Break} ELSE {})

\* the error types of one except clause
ErrorTypes == {<<"E1">>, <<"E2">>, <<"E1", "E2">>}

RECURSIVE StmtsOfSize(_, _), SeqsOfSize(_, _), HandlersOfSize(_, _, _)
\* the non-empty statement sequences with n nodes in all
SeqsOfSize(n, inLoop) ==
    IF n <= 0 THEN {}
    ELSE {<<s>> : s \in StmtsOfSize(n, inLoop)}
         \cup UNION {{<<s>> \o r : s \in StmtsOfSize(i, inLoop),
                                    r \in SeqsOfSize(n - i, inLoop)} : i \in 1..(n - 1)}
\* the lists of h except clauses whose bodies have n nodes in all
HandlersOfSize(n, h, inLoop) ==
    IF h = 1
    THEN {<<handler(t, "e", b)>> : t \in ErrorTypes, b \in SeqsOfSize(n, inLoop)}
    ELSE UNION {{<<handler(t, "e", b)>> \o r :
                    t \in ErrorTypes, b \in SeqsOfSize(i, inLoop),
                    r \in HandlersOfSize(n - i, h - 1, inLoop)} : i \in 1..(n - 1)}
\* the statements with n nodes in all (the statement itself included)
StmtsOfSize(n, inLoop) ==
    IF n <= 0 THEN {}
    ELSE IF n = 1 THEN Atoms(inLoop)
    ELSE {If("t", th, <<>>) : th \in SeqsOfSize(n - 1, inLoop)}
         \cup UNION {{If("t", th, el) : th \in SeqsOfSize(i, inLoop),
                                        el \in SeqsOfSize(n - 1 - i, inLoop)} : i \in 1..(n - 2)}
         \cup {WhileLoop("True", b) : b \in SeqsOfSize(n - 1, TRUE)}
         \cup UNION {UNION {{Try(b, hs) : b \in SeqsOfSize(i, inLoop),
                                          hs \in HandlersOfSize(n - 1 - i, h, inLoop)}
                             : i \in 1..(n - 2)} : h \in 1..MaxHandlers}

\* def f(): <body>
Workflow(body) == Module(<<Def(Nm("f"), <<>>, body)>>)

\* the workflows whose body has at most MaxSize nodes
SmallPrograms == UNION {{Workflow(b) : b \in SeqsOfSize(n, FALSE)} : n \in 1..MaxSize}

\* the body of an except clause: one statement, or a loop left at once
HandlerBodies == {<<a>> : a \in Atoms(FALSE)} \cup {<<WhileLoop("True", <<Break>>)>>}
RECURSIVE ClauseLists(_)
\* the lists of h except clauses
ClauseLists(h) ==
    IF h = 0 THEN {<<>>}
    ELSE {<<handler(t, "e", b)>> \o r :
             t \in ErrorTypes, b \in HandlerBodies, r \in ClauseLists(h - 1)}
\* try: cohesion.activity.foo_1(timeout = 120), with up to MaxHandlers except
\* clauses (the shape of tests/catch_two/catch.py)
TryPrograms ==
    UNION {{Workflow(<<Try(<<ActivityVoid>>, hs)>>) : hs \in ClauseLists(h)}
           : h \in 1..MaxHandlers}

\* the statements that assign the value of a blue expression or return nothing
ValueAtoms == {AssignRaw, ReturnNone}
\* one or two statements in a row, alone or as the body of an if or of a loop
ValuePrograms ==
    LET atoms == Atoms(FALSE) \cup ValueAtoms
        bodies == {<<a>> : a \in ValueAtoms}
                    \cup {<<a, b>> : a \in ValueAtoms, b \in atoms}
                    \cup {<<a, b>> : a \in atoms, b \in ValueAtoms}
    IN  {Workflow(b) : b \in bodies}
            \cup {Workflow(<<If("t", b, <<>>)>>) : b \in bodies}
            \cup {Workflow(<<WhileLoop("True", b)>>) : b \in bodies}

\* cohesion.activity.foo_n(timeout = 120)
Activity(n) ==
    [Call(<<Nm("cohesion"), Nm("activity"), Suffixed(Nm("foo"), n)>>, <<>>)
       EXCEPT !.timeoutSec = 120]
\* a try nested in the body of a try, between two tasks or before the end of
\* the outer body, the outer try with one or two except clauses; every task
\* has a name of its own
NestedTryPrograms ==
    LET inner(t) == Try(<<Activity(2)>>, <<handler(t, "e", <<Activity(3)>>)>>)
        after == {<<>>, <<Activity(4)>>}
        outer == {<<handler(t, "e", <<Activity(5)>>)>> : t \in ErrorTypes}
                   \cup {<<handler(t, "e", <<Activity(5)>>),
                           handler(u, "e", <<Activity(6)>>)>> :
                            t \in ErrorTypes, u \in ErrorTypes}
    IN  {Workflow(<<Try(<<Activity(1), inner(t)>> \o a, hs)>>) :
            t \in ErrorTypes, a \in after, hs \in outer}

Programs == SmallPrograms \cup TryPrograms \cup ValuePrograms \cup NestedTryPrograms

(***************************************************************************)
(* gensym.py: the fresh-name supply.                                       *)
(***************************************************************************)
RECURSIVE sym_loop(_, _, _)
sym_loop(nameSet, prefix, i) ==
    LET s == Suffixed(prefix, i)
    IN  IF s \in nameSet THEN sym_loop(nameSet, prefix, i + 1) ELSE s
\* GenSym.sym: the new name; the caller adds it to the name set
sym(nameSet, prefix) == sym_loop(nameSet, prefix, 1)

(***************************************************************************)
(* cast.py: helper extraction (PythonASTLifter, remove_python).            *)
(* The lifter state is [names, pythonFunctions, wfName].                   *)
(***************************************************************************)
\* PythonASTLifter.__init__: the prefix of the helper names
wfName(root) ==
    IF root.k = "Def" THEN root.name \o <<"func">>
    ELSE IF root.k = "Module" /\ Len(root.body) > 0 /\ root.body[1].k = "Def"
         THEN root.body[1].name \o <<"func">>
         ELSE <<"func">>

\* PythonASTLifter.visit_PythonAST
visit_PythonAST(node, st) ==
    LET funcName == sym(st.names, st.wfName)
    IN  [node |-> Call(<<funcName>>, <<>>),
         st |-> [st EXCEPT !.names = @ \cup {funcName},
                           !.pythonFunctions =
                               Append(@, [name |-> funcName, body |-> node.astNodes])]]

RECURSIVE visit(_, _), visit_items(_, _, _, _)
\* the loop `for olditem in v: newitems.append(self.visit(olditem))'
visit_items(v, i, newitems, st) ==
    IF i > Len(v) THEN [items |-> newitems, st |-> st]
    ELSE LET r == visit(v[i], st)
         IN  visit_items(v, i + 1, Append(newitems, r.node), r.st)
\* CASTVisitor.visit with CASTTransformer.generic_visit.  The fields that
\* hold CAST nodes are visited in the order of node.__dict__: Assign.value,
\* then body / thenBody, then elseBody.  Try.handlers is a list of `handler'
\* objects, which are not CAST nodes, so generic_visit leaves it alone.
visit(node, st) ==
    IF node.k = "PythonAST" THEN visit_PythonAST(node, st)
    ELSE LET r1 == visit_items(node.value, 1, <<>>, st)
             r2 == visit_items(node.body, 1, <<>>, r1.st)
             r3 == visit_items(node.orelse, 1, <<>>, r2.st)
         IN  [node |-> [node EXCEPT !.value = r1.items, !.body = r2.items,
                                    !.orelse = r3.items],
              st |-> r3.st]

\* remove_python: the lifter rewrites agg.cast in place
remove_python(root, nameSet, funcs) ==
    visit(root, [names |-> nameSet, pythonFunctions |-> funcs, wfName |-> wfName(root)])

(***************************************************************************)
(* layoutState.py: the stack of layout cursors.  A Position is a record    *)
(* [row, column]; NoLayout is `_layout = None'.                            *)
(***************************************************************************)
Position(row, column) == [row |-> row, column |-> column]
NoLayout == [row |-> -1, column |-> -1]
\* LayoutState.__init__
LayoutState == <<Position(0, 0)>>
\* LayoutState.peek
peek(layoutStack) == layoutStack[Len(layoutStack)]
\* LayoutState.get returns peek(layoutStack) and leaves this stack
get(layoutStack) == [layoutStack EXCEPT ![Len(layoutStack)].row = @ + 1]
\* LayoutState.push
push(layoutStack, pos) == Append(layoutStack, pos)
\* LayoutState.push_column
push_column(layoutStack) ==
    Append(layoutStack, [peek(layoutStack) EXCEPT !.column = @ + 1])
\* LayoutState.updateRow
updateRow(layoutStack, pos) ==
    IF pos.row > peek(layoutStack).row
    THEN [layoutStack EXCEPT ![Len(layoutStack)].row = pos.row]
    ELSE layoutStack
\* LayoutState.pop (the caller checks the underflow)
pop(layoutStack) == SubSeq(layoutStack, 1, Len(layoutStack) - 1)

(***************************************************************************)
(* asfast.py: the states of a step function.  One record shape for every   *)
(* state class; `cls' is the Python class.  ChoiceState has no nxt / end   *)
(* attribute: its nxt is NoAttr.  `ehm', `ehs' and `bts' record the value  *)
(* of exception_handler_map, exception_handler_stack and                   *)
(* break_target_stack when the state was created, `src' the Call, Return   *)
(* or Break node the state was created for, and `tgt' the targetVar a      *)
(* call state was created with.                                            *)
(***************************************************************************)
State(cls, name, typ) ==
    [cls |-> cls, name |-> name, typ |-> typ, comment |-> EmptyStr,
     nxt |-> EmptyStr, end |-> FALSE, resource |-> EmptyStr,
     inputPath |-> EmptyStr, parameters |-> NoneList, resultPath |-> EmptyStr,
     outputPath |-> EmptyStr, timeoutSeconds |-> NoneNum,
     heartbeatSeconds |-> NoneNum, retry |-> NoneList, catch |-> NoneList,
     choices |-> <<>>, default |-> EmptyStr, secondsPath |-> EmptyStr,
     layout |-> NoLayout, ehm |-> <<>>, ehs |-> <<>>, bts |-> <<>>,
     src |-> CastNode(""), tgt |-> NoVar]

SleepState(name, secondsPath) ==
    [State("SleepState", name, "Wait") EXCEPT !.secondsPath = secondsPath]
TaskState(cls, name, resource) ==
    [State(cls, name, "Task") EXCEPT
        !.resource = resource, !.inputPath = <<"$">>, !.resultPath = <<"$">>,
        !.outputPath = <<"$">>]
ChoiceRule(boolExpr, nxt) == [boolExpr |-> boolExpr, nxt |-> nxt]
TestBooleanVar(varName) == [Variable |-> varName, BooleanEquals |-> TRUE]
ChoiceState(name, choices, default) ==
    [State("ChoiceState", name, "Choice") EXCEPT
        !.nxt = NoAttr, !.choices = choices, !.default = default]
Pass(cls, name, inputPath, nxt, end) ==
    [State(cls, name, "Pass") EXCEPT !.inputPath = inputPath, !.nxt = nxt, !.end = end]

\* State.set_next; Break.set_next does nothing
set_next(s, nxt) ==
    IF s.cls = "Break" THEN s ELSE [s EXCEPT !.nxt = nxt, !.end = FALSE]
\* State.set_end; Break.set_end does nothing
set_end(s, end) ==
    IF s.cls = "Break" THEN s ELSE [s EXCEPT !.end = end]
\* State.set_end raises "both next and end are set"
set_end_raises(s, end) ==
    s.cls # "Break" /\ end /\ Truthy(s.nxt) /\ Len(s.nxt) > 0

StepFunction(name, states) ==
    [cls |-> "StepFunction", name |-> name, comment |-> EmptyStr,
     timeoutSec |-> NoneNum, states |-> states, startState |-> states[1].name]

\* x == s for a str or None x and a State s: State defines no __eq__, and
\* the default compares identities
eq_state(x, s) == FALSE
\* x in states
in_states(x, states) == \E i \in 1..Len(states) : eq_state(x, states[i])
\* StepFunction.validate raises an exception (an AttributeError for a state
\* without the attribute nxt included)
validate(asf) ==
    \/ asf.startState \notin {asf.states[i].name : i \in 1..Len(asf.states)}
    \/ \E i \in 1..Len(asf.states) :
          \/ asf.states[i].nxt = NoAttr
          \/ Truthy(asf.states[i].nxt) /\ asf.states[i].end
          \/ ~in_states(asf.states[i].nxt, asf.states)

(***************************************************************************)
(* GenStateName: the state names of one build.                             *)
(***************************************************************************)
RECURSIVE gen_loop(_, _, _)
gen_loop(used, prefix, n) ==
    LET name == IF n = 0 /\ Truthy(prefix) /\ Len(prefix) > 0
                THEN prefix
                ELSE IF prefix = EmptyStr THEN <<"", ToStr(n)>> ELSE Suffixed(prefix, n)
    IN  IF name \notin used THEN name ELSE gen_loop(used, prefix, n + 1)
\* a name supply that hands out the prefix without consulting `used'
gen_unchecked(used, prefix) == prefix
\* GenStateName.gen: the new name; the caller adds it to `used'
gen(used, prefix) == gen_loop(used, prefix, 0)

(***************************************************************************)
(* Arn: the resource identifiers.  name.replace('_', '-') keeps the parts  *)
(* of the name, which the resource then joins with "-".                    *)
(***************************************************************************)
Region == "us-east-1"
AccountID == "set_account_id_in_config"
lambdaARN(name) ==
    IF Len(name) > 0 /\ name[1] = "arn:" THEN name
    ELSE <<"arn:aws:lambda", Region, AccountID, "function">> \o name
activityARN(name) ==
    IF Len(name) > 0 /\ name[1] = "arn:" THEN name
    ELSE <<"arn:aws:states", Region, AccountID, "activity">> \o name

(***************************************************************************)
(* The CAST -> ASFAST transform.  The module globals of asfast.py are the  *)
(* record ctx = [used, break_target_stack, continue_target_stack,          *)
(* exception_handler_stack, exception_handler_map, layoutStack,            *)
(* routerFunc, err]; err is set when the transform raises.  Every          *)
(* transform returns [states, ctx].                                        *)
(***************************************************************************)
\* a local variable: the body Op of the code that follows the assignment of v
With(v, Op(_)) == Op(v)
Raise(ctx) == [states |-> <<>>, ctx |-> [ctx EXCEPT !.err = TRUE]]
\* the globals a state is created under
Created(s, ctx) ==
    [s EXCEPT !.ehm = ctx.exception_handler_map, !.ehs = ctx.exception_handler_stack,
              !.bts = ctx.break_target_stack]
\* the statement a state is created for
CreatedFor(s, node, ctx) == [Created(s, ctx) EXCEPT !.src = node]
\* the call and the target variable a state is created for
CreatedForCall(s, node, targetVar, ctx) ==
    [CreatedFor(s, node, ctx) EXCEPT !.tgt = targetVar]
\* exception_handler_map[typ] = stateName on an insertion-ordered dict
dict_set(map, typ, stateName) ==
    IF \E i \in 1..Len(map) : map[i].typ = typ
    THEN [i \in 1..Len(map) |->
            IF map[i].typ = typ THEN [map[i] EXCEPT !.stateName = stateName] ELSE map[i]]
    ELSE Append(map, [typ |-> typ, stateName |-> stateName])
\* the catchers of a task created under exception_handler_map
catchers(map) ==
    [i \in 1..Len(map) |-> [ErrorEquals |-> <<map[i].typ>>, Next |-> map[i].stateName]]

transform_cast_call(node, targetVar, ctx) ==
    LET func == node.func
        pos == peek(ctx.layoutStack)
        laidOut == get(ctx.layoutStack)
        isLambda == func[2] = Nm("Lambda")
        funcName == func[Len(func)]
        taskName == gen(ctx.used, funcName)
        task0 == IF isLambda
                 THEN TaskState("LambdaState", taskName, lambdaARN(funcName))
                 ELSE TaskState("TaskState", taskName, activityARN(funcName))
        task1 == IF targetVar \notin {NoVar, ""}
                 THEN [task0 EXCEPT !.resultPath = <<"$", "env", targetVar>>]
                 ELSE IF Len(node.args) > 0
                      THEN [task0 EXCEPT !.resultPath = <<"$", "env", "discard">>,
                                         !.inputPath = <<"$", "env", node.args[1]>>]
                      ELSE [task0 EXCEPT !.resultPath = <<"$", "env", "discard">>,
                                         !.parameters = ListOf(<<>>)]
        task2 == IF Len(node.retry) > 0
                 THEN [task1 EXCEPT !.retry = ListOf(node.retry)] ELSE task1
        task3 == IF Len(ctx.exception_handler_map) > 0
                 THEN [task2 EXCEPT !.catch = ListOf(catchers(ctx.exception_handler_map))]
                 ELSE task2
        sleepName == gen(ctx.used, Nm("sleep"))
        lsName == gen(ctx.used, func[1])
        ls == IF Truthy(ctx.routerFunc)
              THEN [TaskState("LambdaState", lsName, lambdaARN(ctx.routerFunc))
                      EXCEPT !.parameters =
                          ListOf(<<[key |-> "env", value |-> <<"$", "env">>],
                                   [key |-> "func", value |-> func[1]]>>)]
              ELSE TaskState("LambdaState", lsName, lambdaARN(func[1]))
    IN  IF Len(func) > 1
        THEN IF func[2] \in {Nm("Lambda"), Nm("activity")}
             THEN [states |-> <<CreatedForCall([task3 EXCEPT !.layout = pos], node, targetVar, ctx)>>,
                   ctx |-> [ctx EXCEPT !.used = @ \cup {taskName}, !.layoutStack = laidOut]]
             ELSE IF func[2] = Nm("sleep") /\ Len(node.args) > 0
             THEN [states |->
                      <<CreatedForCall([SleepState(sleepName, <<"$", "env", node.args[1]>>)
                                          EXCEPT !.layout = pos], node, targetVar, ctx)>>,
                   ctx |-> [ctx EXCEPT !.used = @ \cup {sleepName}, !.layoutStack = laidOut]]
             ELSE Raise(ctx)
        ELSE [states |-> <<CreatedForCall([ls EXCEPT !.layout = pos], node, targetVar, ctx)>>,
              ctx |-> [ctx EXCEPT !.used = @ \cup {lsName}, !.layoutStack = laidOut]]

transform_cast_return(node, ctx) ==
    LET name == gen(ctx.used, <<"exit", "pass">>)
        passNode == Pass("Pass", name, <<"$", "env", Fmt(node.ret)>>, EmptyStr, TRUE)
    IN  [states |-> <<CreatedFor([passNode EXCEPT !.layout = peek(ctx.layoutStack)],
                                 node, ctx)>>,
         ctx |-> [ctx EXCEPT !.used = @ \cup {name}, !.layoutStack = get(@)]]

transform_cast_break(node, ctx) ==
    LET name == gen(ctx.used, Nm("break"))
        target == ctx.break_target_stack[Len(ctx.break_target_stack)]
        breakNode == Pass("Break", name, EmptyStr, target, FALSE)
    IN  IF Len(ctx.break_target_stack) = 0 THEN Raise(ctx)
        ELSE [states |-> <<CreatedFor([breakNode EXCEPT !.layout = peek(ctx.layoutStack)],
                                      node, ctx)>>,
              ctx |-> [ctx EXCEPT !.used = @ \cup {name}, !.layoutStack = get(@)]]

\* the last state of a state list, changed by op
SetLast(states, s) == [states EXCEPT ![Len(states)] = s]
Last(states) == states[Len(states)]

RECURSIVE transform_cast(_, _), sequence_loop(_, _, _, _), handlers_loop(_, _, _, _, _)

\* the loop of transform_cast_sequence; nodes[i] is translated next
sequence_loop(nodes, i, result, ctx) ==
    IF i > Len(nodes)
    THEN IF Len(result) = 0 \/ set_end_raises(Last(result), TRUE)
         THEN Raise(ctx)
         ELSE [states |-> SetLast(result, set_end(Last(result), TRUE)), ctx |-> ctx]
    ELSE With(transform_cast(nodes[i], ctx), LAMBDA n1 :
            IF n1.ctx.err \/ Len(n1.states) = 0 THEN Raise(n1.ctx)
            ELSE sequence_loop(
                     nodes, i + 1,
                     (IF Len(result) > 0
                      THEN [result EXCEPT ![Len(result)].nxt = n1.states[1].name]
                      ELSE result) \o n1.states,
                     n1.ctx))

transform_cast_sequence(nodes, ctx) == sequence_loop(nodes, 1, <<>>, ctx)

transform_cast_if(node, ctx) ==
    LET choiceName == gen(ctx.used, Nm("choice"))
        passName == gen(ctx.used \cup {choiceName}, <<"if", "pass">>)
        hasElse == Len(node.orelse) > 0
    IN  With(transform_cast_sequence(
                 node.body,
                 [ctx EXCEPT !.used = @ \cup {choiceName, passName},
                             !.layoutStack = push_column(get(@))]),
             LAMBDA th :
        IF th.ctx.err \/ Len(th.ctx.layoutStack) = 1 THEN Raise(th.ctx)
        ELSE
        With(IF hasElse
             THEN transform_cast_sequence(node.orelse,
                                          [th.ctx EXCEPT !.layoutStack = pop(@)])
             ELSE [states |-> <<>>, ctx |-> [th.ctx EXCEPT !.layoutStack = pop(@)]],
             LAMBDA el :
        IF el.ctx.err THEN Raise(el.ctx)
        ELSE
        LET thenBodyASF == SetLast(th.states, set_next(Last(th.states), passName))
            elseBodyASF ==
                IF hasElse
                THEN SetLast(el.states, set_next(Last(el.states), passName))
                ELSE <<>>
            default == IF hasElse THEN el.states[1].name ELSE passName
            updated == updateRow(el.ctx.layoutStack, peek(th.ctx.layoutStack))
            choiceNode ==
                Created([ChoiceState(choiceName,
                                     <<ChoiceRule(TestBooleanVar(<<"$", "env", node.test>>),
                                                  th.states[1].name)>>,
                                     default)
                           EXCEPT !.layout = peek(ctx.layoutStack)], ctx)
            passNode ==
                Created([Pass("RemovablePass", passName, EmptyStr, EmptyStr, FALSE)
                           EXCEPT !.layout = peek(updated)], ctx)
        IN  [states |-> <<choiceNode>> \o thenBodyASF \o elseBodyASF \o <<passNode>>,
             ctx |-> [el.ctx EXCEPT !.layoutStack = get(updated)]]))

transform_cast_while(node, ctx) ==
    LET startName == gen(ctx.used, <<"loop", "start">>)
        endName == gen(ctx.used \cup {startName}, <<"loop", "end">>)
    IN  With(transform_cast_sequence(
                 node.body,
                 [ctx EXCEPT !.used = @ \cup {startName, endName},
                             !.layoutStack = get(@),
                             !.continue_target_stack = Append(@, startName),
                             !.break_target_stack = Append(@, endName)]),
             LAMBDA body :
        LET ctx2 == [body.ctx EXCEPT
                        !.break_target_stack = SubSeq(@, 1, Len(@) - 1),
                        !.continue_target_stack = SubSeq(@, 1, Len(@) - 1)]
            startPassNode ==
                Created([Pass("RemovablePass", startName, EmptyStr, EmptyStr, FALSE)
                           EXCEPT !.layout = peek(ctx.layoutStack)], ctx)
            endPassNode ==
                Created([Pass("RemovablePass", endName, EmptyStr, EmptyStr, FALSE)
                           EXCEPT !.layout = peek(body.ctx.layoutStack)], ctx)
            bodyASF == SetLast(body.states, set_next(Last(body.states), startName))
        IN  IF body.ctx.err THEN Raise(body.ctx)
            ELSE IF node.test = "True"
            THEN [states |-> <<set_next(startPassNode, body.states[1].name)>>
                                \o bodyASF \o <<endPassNode>>,
                  ctx |-> [ctx2 EXCEPT !.layoutStack = get(@)]]
            \* "currently dead code": cast.varFromEnv(node) raises on a WhileLoop
            ELSE Raise(ctx2))

\* HandlerReference
HandlerReference(h, stateName) == [handler |-> h, stateName |-> stateName]

\* the loop `for h in node.handlers' of transform_cast_try
handlers_loop(handlers, i, endPassName, handlerBodies, ctx) ==
    IF i > Len(handlers) THEN [bodies |-> handlerBodies, ctx |-> ctx]
    ELSE With(transform_cast_sequence(handlers[i].body, ctx), LAMBDA hb :
            IF hb.ctx.err THEN [bodies |-> <<>>, ctx |-> hb.ctx]
            ELSE LET handlerBody ==
                         SetLast(hb.states, set_next(Last(hb.states), endPassName))
                     handlerRef == HandlerReference(handlers[i], hb.states[1].name)
                 IN  handlers_loop(handlers, i + 1, endPassName,
                                   Append(handlerBodies, handlerBody),
                                   [hb.ctx EXCEPT !.exception_handler_stack =
                                                      Append(@, handlerRef)]))

RECURSIVE make_handler_map(_, _, _, _)
\* the loops `for hr in exception_handler_stack: for typ in hr.handler.types'
make_handler_map(stack, i, j, map) ==
    IF i > Len(stack) THEN map
    ELSE IF j > Len(stack[i].handler.types) THEN make_handler_map(stack, i + 1, 1, map)
    ELSE make_handler_map(stack, i, j + 1,
                          dict_set(map, stack[i].handler.types[j], stack[i].stateName))

RECURSIVE Flatten(_)
\* the concatenation of a list of state lists
Flatten(lists) ==
    IF Len(lists) = 0 THEN <<>> ELSE lists[1] \o Flatten(Tail(lists))

transform_cast_try(node, ctx) ==
    LET endName == gen(ctx.used, Nm("endTry"))
    IN  With(handlers_loop(
                 node.handlers, 1, endName, <<>>,
                 [ctx EXCEPT !.used = @ \cup {endName},
                             !.layoutStack =
                                 push(@, Position(1, 1 + peek(ctx.layoutStack).column))]),
             LAMBDA hl :
        IF hl.ctx.err THEN Raise(hl.ctx)
        ELSE
        With(transform_cast_sequence(
                 node.body,
                 [hl.ctx EXCEPT
                     !.layoutStack = pop(@),
                     !.exception_handler_map =
                         make_handler_map(hl.ctx.exception_handler_stack, 1, 1, <<>>)]),
             LAMBDA bd :
        IF bd.ctx.err THEN Raise(bd.ctx)
        ELSE
        LET body == SetLast(bd.states, set_next(Last(bd.states), endName))
            nRows == Last(bd.states).layout.row
            moved == [b \in 1..Len(hl.bodies) |->
                        [k \in 1..Len(hl.bodies[b]) |->
                            [hl.bodies[b][k] EXCEPT !.layout.row = @ + nRows]]]
            handlerStates == Flatten(moved)
            lastRow == IF Len(handlerStates) = 0 THEN 0
                       ELSE Last(handlerStates).layout.row
            updated == updateRow(bd.ctx.layoutStack, Position(lastRow, 0))
            endPass ==
                Created([Pass("RemovablePass", endName, EmptyStr, EmptyStr, FALSE)
                           EXCEPT !.layout = peek(updated)], ctx)
        IN  [states |-> body \o handlerStates \o <<endPass>>,
             ctx |-> [bd.ctx EXCEPT
                         !.layoutStack = get(updated),
                         !.exception_handler_stack =
                             SubSeq(@, 1, Len(@) - Len(node.handlers)),
                         !.exception_handler_map = <<>>]]))

\* transform_cast of a Def: the step function of one workflow function
transform_cast_def(node, ctx) ==
    LET initName == gen(ctx.used, <<"env", "init">>)
        env == [i \in 1..Len(node.args) |->
                  [key |-> <<node.args[i].name, "$">>, value |-> <<"$", node.args[i].name>>]]
        initState ==
            Created([Pass("Pass", initName, <<"$">>, EmptyStr, FALSE) EXCEPT
                        !.parameters = ListOf(<<[key |-> "env", value |-> env]>>),
                        !.layout = peek(ctx.layoutStack)], ctx)
    IN  With(transform_cast_sequence(
                 node.body,
                 [ctx EXCEPT !.used = @ \cup {initName}, !.layoutStack = get(@)]),
             LAMBDA bodyASF :
        IF bodyASF.ctx.err THEN Raise(bodyASF.ctx)
        ELSE [states |->
                 <<StepFunction(node.name,
                                <<[initState EXCEPT !.nxt = bodyASF.states[1].name]>>
                                \o bodyASF.states)>>,
              ctx |-> bodyASF.ctx])

transform_cast(node, ctx) ==
    CASE node.k = "Def" -> transform_cast_def(node, ctx)
      [] node.k = "Assign" ->
            IF node.value[1].k = "Call"
            THEN transform_cast_call(node.value[1], node.target, ctx)
            ELSE Raise(ctx)
      [] node.k = "Call" -> transform_cast_call(node, NoVar, ctx)
      [] node.k = "If" -> transform_cast_if(node, ctx)
      [] node.k = "WhileLoop" -> transform_cast_while(node, ctx)
      [] node.k = "Return" -> transform_cast_return(node, ctx)
      [] node.k = "Break" -> transform_cast_break(node, ctx)
      [] node.k = "Try" -> transform_cast_try(node, ctx)
      [] OTHER -> Raise(ctx)

RECURSIVE module_loop(_, _, _, _)
\* transform_cast of a Module: [s for n in node.body for s in transform_cast(n)]
module_loop(body, i, defs, ctx) ==
    IF i > Len(body) THEN [states |-> defs, ctx |-> ctx]
    ELSE With(transform_cast(body[i], ctx), LAMBDA r :
            IF r.ctx.err THEN Raise(r.ctx)
            ELSE module_loop(body, i + 1, defs \o r.states, r.ctx))

\* the module globals of asfast.py, as the last build left them
VARIABLE globals

\* an init_state that leaves the GenStateName of the earlier build in place
init_state_stale(routerFunc) ==
    [used |-> globals.used, break_target_stack |-> <<>>, continue_target_stack |-> <<>>,
     exception_handler_stack |-> <<>>, exception_handler_map |-> <<>>,
     layoutStack |-> LayoutState, routerFunc |-> routerFunc, err |-> FALSE]
\* init_state
init_state(routerFunc) ==
    [used |-> {}, break_target_stack |-> <<>>, continue_target_stack |-> <<>>,
     exception_handler_stack |-> <<>>, exception_handler_map |-> <<>>,
     layoutStack |-> LayoutState, routerFunc |-> routerFunc, err |-> FALSE]

\* build: init_state, then the transform of the module
build(root, routerFunc) == module_loop(root.body, 1, <<>>, init_state(routerFunc))

(***************************************************************************)
(* Pass elimination.                                                       *)
(***************************************************************************)
\* a remove_state_refs that retargets next and choice rules, not the default
remove_refs_of_rules(s, stateName, replacement) ==
    LET s1 == IF s.nxt # NoAttr /\ s.nxt = stateName
              THEN IF Truthy(replacement)
                   THEN [s EXCEPT !.nxt = replacement, !.end = FALSE]
                   ELSE IF s.cls = "Break" THEN s
                        ELSE set_end([s EXCEPT !.nxt = NoneVal], TRUE)
              ELSE s
    IN  IF s.cls = "ChoiceState"
        THEN [s1 EXCEPT
                !.choices = [c \in 1..Len(s.choices) |->
                                IF s.choices[c].nxt = stateName /\ Truthy(replacement)
                                THEN [s.choices[c] EXCEPT !.nxt = replacement]
                                ELSE s.choices[c]]]
        ELSE s1
\* what remove_state_refs does to one state
remove_refs_of(s, stateName, replacement) ==
    LET s1 == IF s.nxt # NoAttr /\ s.nxt = stateName
              THEN IF Truthy(replacement)
                   THEN [s EXCEPT !.nxt = replacement, !.end = FALSE]
                   ELSE IF s.cls = "Break" THEN s
                        ELSE set_end([s EXCEPT !.nxt = NoneVal], TRUE)
              ELSE s
    IN  IF s.cls = "ChoiceState"
        THEN [s1 EXCEPT
                !.choices = [c \in 1..Len(s.choices) |->
                                IF s.choices[c].nxt = stateName /\ Truthy(replacement)
                                THEN [s.choices[c] EXCEPT !.nxt = replacement]
                                ELSE s.choices[c]],
                !.default = IF s.default = stateName /\ Truthy(replacement)
                            THEN replacement ELSE s.default]
        ELSE s1
\* remove_state_refs sets failed at this state
remove_refs_fails(s, stateName, replacement) ==
    /\ ~Truthy(replacement)
    /\ \/ s.nxt # NoAttr /\ s.nxt = stateName /\ s.cls = "Break"
       \/ /\ s.cls = "ChoiceState"
          /\ \/ \E c \in 1..Len(s.choices) : s.choices[c].nxt = stateName
             \/ s.default = stateName
\* remove_state_refs: the states after it, and its return value
remove_state_refs(states, stateName, replacement) ==
    [states |-> [i \in 1..Len(states) |-> remove_refs_of(states[i], stateName, replacement)],
     success |-> ~\E i \in 1..Len(states) :
                     remove_refs_fails(states[i], stateName, replacement)]

RECURSIVE find_removed(_, _, _)
\* a loop that stops at the first RemovablePass it could remove
find_removed_one(states, i, removedStates) ==
    LET first == {k \in 1..Len(states) :
                     /\ states[k].cls = "RemovablePass"
                     /\ Truthy(states[k].nxt)}
        k == CHOOSE k \in first : \A j \in first : k <= j
    IN  IF first = {} THEN [states |-> states, removedStates |-> removedStates]
        ELSE [states |-> [j \in 1..Len(states) |->
                             IF states[j].nxt # NoAttr /\ states[j].nxt = states[k].name
                             THEN [states[j] EXCEPT !.nxt = states[k].nxt]
                             ELSE states[j]],
              removedStates |-> Append(removedStates, states[k])]
\* the loop `for state in asf.states' of remove_pass
find_removed(states, i, removedStates) ==
    IF i > Len(states) THEN [states |-> states, removedStates |-> removedStates]
    ELSE IF states[i].cls = "RemovablePass"
    THEN LET r == remove_state_refs(states, states[i].name, states[i].nxt)
         IN  find_removed(r.states, i + 1,
                          IF r.success THEN Append(removedStates, r.states[i])
                          ELSE removedStates)
    ELSE find_removed(states, i + 1, removedStates)

\* a pass elimination that rewires the edges and deletes nothing
without_removed_keep(states, rsNames) == states
\* newStates = [s for s in asf.states if s.name not in rsNames]
without_removed(states, rsNames) == SelectSeq(states, LAMBDA s : s.name \notin rsNames)

RECURSIVE sorted_rows(_)
\* the rows of sorted(removedStates, key = -row)
sorted_rows(rows) ==
    IF Len(rows) = 0 THEN <<>>
    ELSE LET m == CHOOSE i \in 1..Len(rows) : \A j \in 1..Len(rows) : rows[j] <= rows[i]
         IN  <<rows[m]>> \o sorted_rows([j \in 1..(Len(rows) - 1) |->
                                            IF j < m THEN rows[j] ELSE rows[j + 1]])

RECURSIVE fix_layout(_, _, _)
\* the loop `for rs in sorted(removedStates, ...)' of remove_pass
fix_layout(states, rows, i) ==
    IF i > Len(rows) THEN states
    ELSE LET removedRow == rows[i]
             inThisRow == {k \in 1..Len(states) :
                              states[k].layout # NoLayout /\ states[k].layout.row = removedRow}
         IN  IF inThisRow = {}
             THEN fix_layout([k \in 1..Len(states) |->
                                 IF states[k].layout # NoLayout
                                    /\ states[k].layout.row > removedRow
                                 THEN [states[k] EXCEPT !.layout.row = @ - 1]
                                 ELSE states[k]],
                             rows, i + 1)
             ELSE fix_layout(states, rows, i + 1)

RECURSIVE remove_pass_loop(_, _, _)
\* the loop `for asf in agg.workflowAst.defs' of remove_pass; removedStates
\* is created before the loop and shared by all step functions
remove_pass_loop(defs, d, removedStates) ==
    IF d > Len(defs) THEN defs
    ELSE LET found == find_removed(defs[d].states, 1, removedStates)
             rsNames == {found.removedStates[k].name : k \in 1..Len(found.removedStates)}
             newStates == without_removed(found.states, rsNames)
             rows == sorted_rows([k \in 1..Len(found.removedStates) |->
                                     found.removedStates[k].layout.row])
         IN  remove_pass_loop([defs EXCEPT ![d].states = fix_layout(newStates, rows, 1)],
                              d + 1, found.removedStates)

remove_pass(defs) == remove_pass_loop(defs, 1, <<>>)

(***************************************************************************)
(* The visualization graph and the workflow JSON.  A dict is the sequence  *)
(* of its [key, value] items in insertion order.                           *)
(***************************************************************************)
\* StepFunction.graph
graph(asf) ==
    LET edgesOf(s) ==
            IF s.cls = "ChoiceState"
            THEN [c \in 1..Len(s.choices) |-> [from |-> s.name, to |-> s.choices[c].nxt,
                                               type |-> ""]]
                 \o <<[from |-> s.name, to |-> s.default, type |-> ""]>>
            ELSE (IF Truthy(s.nxt) /\ Len(s.nxt) > 0
                  THEN <<[from |-> s.name, to |-> s.nxt, type |-> ""]>> ELSE <<>>)
                 \o (IF s.typ = "Task" /\ ~s.catch.none
                     THEN [c \in 1..Len(s.catch.items) |->
                             [from |-> s.name, to |-> s.catch.items[c].Next,
                              type |-> "catch"]]
                     ELSE <<>>)
    IN  [nodes |-> [i \in 1..Len(asf.states) |->
                      [name |-> asf.states[i].name, row |-> asf.states[i].layout.row,
                       column |-> asf.states[i].layout.column]],
         edges |-> Flatten([i \in 1..Len(asf.states) |-> edgesOf(asf.states[i])])]

\* StepFunction.remove_layout
remove_layout(asf) ==
    [asf EXCEPT !.states = [i \in 1..Len(asf.states) |->
                               [asf.states[i] EXCEPT !.layout = NoLayout]]]

Item(key, value) == [key |-> key, value |-> value]
\* an item that is emitted only under a condition
ItemIf(cond, key, value) == IF cond THEN <<Item(key, value)>> ELSE <<>>

\* the to_dict of the state classes
to_dict(s) ==
    LET base == <<Item("Type", s.typ)>>
                \o ItemIf(Len(s.comment) > 0, "Comment", s.comment)
                \o ItemIf(s.layout # NoLayout, "_layout", s.layout)
        nextEnd == ItemIf(Truthy(s.nxt) /\ Len(s.nxt) > 0, "Next", s.nxt)
                   \o ItemIf(s.end, "End", s.end)
    IN  CASE s.typ = "Wait" ->
               base \o nextEnd \o <<Item("SecondsPath", s.secondsPath)>>
          [] s.typ = "Task" ->
               base \o nextEnd \o <<Item("Resource", s.resource)>>
               \o ItemIf(Truthy(s.inputPath) /\ Len(s.inputPath) > 0, "InputPath", s.inputPath)
               \o ItemIf(~s.parameters.none /\ Len(s.parameters.items) > 0,
                         "Parameters", s.parameters.items)
               \o <<Item("OutputPath", s.outputPath), Item("ResultPath", s.resultPath)>>
               \o ItemIf(TruthyNum(s.timeoutSeconds), "TimeoutSeconds", s.timeoutSeconds)
               \o ItemIf(TruthyNum(s.heartbeatSeconds), "HeartbeatSeconds",
                         s.heartbeatSeconds)
               \o ItemIf(~s.retry.none /\ Len(s.retry.items) > 0, "Retry", s.retry.items)
               \o ItemIf(~s.catch.none /\ Len(s.catch.items) > 0, "Catch", s.catch.items)
          [] s.typ = "Choice" ->
               base \o <<Item("Choices",
                              [c \in 1..Len(s.choices) |->
                                  <<Item("Variable", s.choices[c].boolExpr.Variable),
                                    Item("BooleanEquals", TRUE),
                                    Item("Next", s.choices[c].nxt)>>]),
                         Item("Default", s.default)>>
          [] OTHER ->
               base \o ItemIf(Len(s.inputPath) > 0, "InputPath", s.inputPath)
               \o ItemIf(~s.parameters.none /\ Len(s.parameters.items) > 0,
                         "Parameters", s.parameters.items)
               \o ItemIf(Len(s.outputPath) > 0, "OutputPath", s.outputPath)
               \o nextEnd

\* StepFunction.to_dict
sf_to_dict(asf) ==
    <<Item("StartAt", asf.startState),
      Item("States", [i \in 1..Len(asf.states) |->
                         Item(asf.states[i].name, to_dict(asf.states[i]))])>>
    \o ItemIf(TruthyNum(asf.timeoutSec), "TimeoutSeconds", asf.timeoutSec)

(***************************************************************************)
(* cast.py: the CIR of a green ast.Call (transform_green_node).  An        *)
(* ast.Call is [func, args, keywords]; a keyword is [arg, value]; a value  *)
(* is an ast.Num, an ast.Str, an ast.Name, or an ast.List of ast.Dict      *)
(* whose keys are the names that varFromEnv reads from env['...'].         *)
(***************************************************************************)
AstValue(cls) == [cls |-> cls, n |-> NoneNum, s |-> "", id |-> "", elts |-> <<>>]
Num(n) == [AstValue("Num") EXCEPT !.n = n]
Str(str) == [AstValue("Str") EXCEPT !.s = str]
Name(id) == [AstValue("Name") EXCEPT !.id = id]
List(elts) == [AstValue("List") EXCEPT !.elts = elts]
Dict(keys, values) == [cls |-> "Dict", keys |-> keys, values |-> values]
keyword(arg, value) == [arg |-> arg, value |-> value]
AstCall(func, args, keywords) == [func |-> func, args |-> args, keywords |-> keywords]

\* the keyword names of the calls
KeywordNames == {"timeout", "timeoutSeconds", "Heartbeat", "heartbeatSeconds", "retry", "delay"}
\* str.lower on the keyword names
lower(str) ==
    CASE str = "timeoutSeconds" -> "timeoutseconds"
      [] str = "Heartbeat" -> "heartbeat"
      [] str = "heartbeatSeconds" -> "heartbeatseconds"
      [] OTHER -> str
\* the keyword values of the calls
KeywordValues ==
    {Num(5), Name("v"), List(<<>>),
     List(<<Dict(<<"Error", "IntervalSeconds", "MaxAttempts", "BackoffRate">>,
                 <<Str("States.ALL"), Num(1), Num(3), Num(2)>>)>>),
     List(<<Dict(<<"Jitter">>, <<Num(1)>>)>>)}

\* a result or an exception
Ok(value) == [err |-> FALSE, value |-> value]
Err == [err |-> TRUE, value |-> NoneVal]

getNumber(node) == IF node.cls = "Num" THEN Ok(node.n) ELSE Err
getString(node) == IF node.cls = "Str" THEN Ok(node.s) ELSE Err

\* the dict of one retrier before its keys are read
NoRetrier ==
    [ErrorEquals |-> <<>>, IntervalSeconds |-> NoneNum, MaxAttempts |-> NoneNum,
     BackoffRate |-> NoneNum]
RECURSIVE retrier_keys(_, _, _)
\* the loop over the keys of one retrier
retrier_keys(r, i, result) ==
    IF i > Len(r.keys) THEN Ok(result)
    ELSE LET key == r.keys[i]
             v == r.values[i]
         IN  IF key = "Error"
             THEN IF getString(v).err THEN Err
                  ELSE retrier_keys(r, i + 1,
                                    [result EXCEPT !.ErrorEquals = <<getString(v).value>>])
             ELSE IF key = "IntervalSeconds"
             THEN IF getNumber(v).err THEN Err
                  ELSE retrier_keys(r, i + 1,
                                    [result EXCEPT !.IntervalSeconds = getNumber(v).value])
             ELSE IF key = "MaxAttempts"
             THEN IF getNumber(v).err THEN Err
                  ELSE retrier_keys(r, i + 1,
                                    [result EXCEPT !.MaxAttempts = getNumber(v).value])
             ELSE IF key = "BackoffRate"
             THEN IF getNumber(v).err THEN Err
                  ELSE retrier_keys(r, i + 1,
                                    [result EXCEPT !.BackoffRate = getNumber(v).value])
             ELSE Err
RECURSIVE retriers_loop(_, _, _)
\* the loop over the retriers of the list
retriers_loop(elts, i, result) ==
    IF i > Len(elts) THEN Ok(result)
    ELSE IF elts[i].cls # "Dict" THEN Err
    ELSE IF retrier_keys(elts[i], 1, NoRetrier).err THEN Err
    ELSE retriers_loop(elts, i + 1, Append(result, retrier_keys(elts[i], 1, NoRetrier).value))
getRetrier(node) ==
    IF node.cls # "List" THEN Err ELSE retriers_loop(node.elts, 1, <<>>)

RECURSIVE keywords_loop(_, _, _)
\* the loop over node.keywords: a keyword that no branch names is passed over
keywords_loop(keywords, i, result) ==
    IF i > Len(keywords) THEN Ok(result)
    ELSE LET arg == lower(keywords[i].arg)
             value == keywords[i].value
         IN  IF arg \in {"timeout", "timeoutseconds"}
             THEN IF getNumber(value).err THEN Err
                  ELSE keywords_loop(keywords, i + 1,
                                     [result EXCEPT !.timeoutSec = getNumber(value).value])
             ELSE IF arg \in {"heartbeat", "heartbeatseconds"}
             THEN IF getNumber(value).err THEN Err
                  ELSE keywords_loop(keywords, i + 1,
                                     [result EXCEPT !.heartbeatSec = getNumber(value).value])
             ELSE IF arg = "retry"
             THEN IF getRetrier(value).err THEN Err
                  ELSE keywords_loop(keywords, i + 1,
                                     [result EXCEPT !.retry = getRetrier(value).value])
             ELSE keywords_loop(keywords, i + 1, result)
\* transform_green_node, c == ast.Call
transform_green_call(node) == keywords_loop(node.keywords, 1, Call(node.func, node.args))
\* what a call of transform_green_node came to
NotCalled == [state |-> "not called", node |-> CastNode("")]
Raised == [state |-> "raised", node |-> CastNode("")]
Returned(node) == [state |-> "returned", node |-> node]

(***************************************************************************)
(* The Python AST of the passes before cast.build.  A node is [cls, id,    *)
(* color, func, kids, handlers, bound]: `id' is the id of a Name, the s of *)
(* a Str, the name of a FunctionDef; `color' is the attribute the coloring *)
(* pass sets (TRUE is green); `func' is the dotted name a Call calls;      *)
(* `kids' are the children in the order of ast.iter_fields (for a Call     *)
(* the args, then the values of the keywords); `handlers' are the          *)
(* ExceptHandler nodes of a Try; `bound' are the names a node binds that   *)
(* the AST holds as plain strings, not as Name nodes: the arg of each      *)
(* parameter of a FunctionDef, the name of an ExceptHandler.               *)
(***************************************************************************)
PyNode(cls, id, kids) ==
    [cls |-> cls, id |-> id, color |-> FALSE, func |-> <<>>, kids |-> kids,
     handlers |-> <<>>, bound |-> <<>>]
PyName(id) == PyNode("Name", id, <<>>)
PyStr(str) == PyNode("Str", str, <<>>)
PyNum == PyNode("Num", "", <<>>)
PyIndex(value) == PyNode("Index", "", <<value>>)
PySubscript(value, slice) == PyNode("Subscript", "", <<value, slice>>)
PyCall(func, args) == [PyNode("Call", "", args) EXCEPT !.func = func]
PyExpr(value) == PyNode("Expr", "", <<value>>)
PyAssign(target, value) == PyNode("Assign", "", <<target, value>>)
PyReturn(value) == PyNode("Return", "", value)
PyBreak == PyNode("Break", "", <<>>)
PyWhile(test, body) == PyNode("While", "", <<test>> \o body)
PyIf(test, body) == PyNode("If", "", <<test>> \o body)
PyExceptHandler(type, body) == PyNode("ExceptHandler", type, body)
PyTry(body, handlers) == [PyNode("Try", "", body) EXCEPT !.handlers = handlers]
PyFunctionDef(name, body) == PyNode("FunctionDef", name, body)
PyModule(body) == PyNode("Module", "", body)
\* coloring.is_green
is_green(node) == node.color

(***************************************************************************)
(* coloring.py: BlueGreenWalker.  The walker is [changes_made,             *)
(* green_functions, node_stack, err]; an entry of node_stack is the class, *)
(* the name and the color of a node whose children are being visited: the  *)
(* node takes the color of its entry when it is popped.  A visit returns   *)
(* [node, w], the node as the visit has colored it and the walker after    *)
(* it; err is set when the visit raises.                                   *)
(***************************************************************************)
\* BlueGreenWalker.__init__
BlueGreenWalker ==
    [changes_made |-> FALSE, green_functions |-> {}, node_stack |-> <<>>, err |-> FALSE]
\* does the dotted name reference the module?
nameReferences(func, moduleName) == Len(func) > 0 /\ func[1] = moduleName
\* self.node_stack.append(node)
stack_push(w, node) ==
    [w EXCEPT !.node_stack = Append(@, [cls |-> node.cls, id |-> node.id,
                                        color |-> node.color])]
\* self.node_stack.pop()
stack_pop(w) == [w EXCEPT !.node_stack = SubSeq(@, 1, Len(@) - 1)]
\* the color of the node on top of the stack
top_color(w) == w.node_stack[Len(w.node_stack)].color
\* _make_all_green(self.node_stack), _make_green for each node of the stack
make_all_green(w) ==
    [w EXCEPT
        !.node_stack = [i \in 1..Len(w.node_stack) |->
                           [w.node_stack[i] EXCEPT !.color = TRUE]],
        !.changes_made = @ \/ \E i \in 1..Len(w.node_stack) : ~w.node_stack[i].color,
        !.green_functions = @ \cup {w.node_stack[i].id :
                                        i \in {j \in 1..Len(w.node_stack) :
                                                  /\ w.node_stack[j].cls = "FunctionDef"
                                                  /\ ~w.node_stack[j].color}}]
\* the innermost node of the stack that is of one of the classes, 0 if none
innermost(w, classes) ==
    LET found == {i \in 1..Len(w.node_stack) : w.node_stack[i].cls \in classes}
    IN  IF found = {} THEN 0 ELSE CHOOSE i \in found : \A j \in found : j <= i

RECURSIVE walker_visit(_, _), visit_nodes(_, _, _)
\* the visits of the nodes from the i-th on, in order
visit_nodes(nodes, i, w) ==
    IF i > Len(nodes) \/ w.err THEN [nodes |-> nodes, w |-> w]
    ELSE With(walker_visit(nodes[i], w), LAMBDA r :
            visit_nodes([nodes EXCEPT ![i] = r.node], i + 1, r.w))
\* NodeVisitor.generic_visit
generic_visit(node, w) ==
    With(visit_nodes(node.kids, 1, w), LAMBDA k :
        With(visit_nodes(node.handlers, 1, k.w), LAMBDA h :
            [node |-> [node EXCEPT !.kids = k.nodes, !.handlers = h.nodes], w |-> h.w]))
\* _push_and_visit
push_and_visit(node, w) ==
    With(generic_visit(node, stack_push(w, node)), LAMBDA r :
        [node |-> [r.node EXCEPT !.color = top_color(r.w)], w |-> stack_pop(r.w)])
\* a visit_Module that reports a change whether the module was green or not
visit_Module_always(node, w) ==
    With(generic_visit(node, w), LAMBDA r :
        [node |-> [r.node EXCEPT !.color = TRUE],
         w |-> [r.w EXCEPT !.changes_made = TRUE]])
visit_Module(node, w) ==
    With(generic_visit(node, w), LAMBDA r :
        IF is_green(r.node) THEN r
        ELSE [node |-> [r.node EXCEPT !.color = TRUE],
              w |-> [r.w EXCEPT !.changes_made = TRUE]])
visit_Call(node, w) ==
    IF is_green(node) THEN [node |-> node, w |-> w]
    ELSE With(IF \/ nameReferences(node.func, "cohesion")
                 \/ Len(node.func) = 1 /\ node.func[1] \in w.green_functions
              THEN make_all_green(stack_push(w, node))
              ELSE stack_push(w, node),
              LAMBDA w1 : generic_visit([node EXCEPT !.color = top_color(w1)],
                                        stack_pop(w1)))
visit_Return(node, w) ==
    IF is_green(node) THEN [node |-> node, w |-> w]
    ELSE IF innermost(w, {"FunctionDef"}) = 0
    THEN [node |-> node, w |-> [w EXCEPT !.err = TRUE]]
    ELSE With(IF w.node_stack[innermost(w, {"FunctionDef"})].color
              THEN make_all_green(stack_push(w, node))
              ELSE stack_push(w, node),
              LAMBDA w1 : generic_visit([node EXCEPT !.color = top_color(w1)],
                                        stack_pop(w1)))
visit_Break(node, w) ==
    IF is_green(node) THEN [node |-> node, w |-> w]
    ELSE IF innermost(w, {"While", "For"}) = 0
    THEN [node |-> node, w |-> [w EXCEPT !.err = TRUE]]
    ELSE With(IF w.node_stack[innermost(w, {"While", "For"})].color
              THEN make_all_green(stack_push(w, node))
              ELSE stack_push(w, node),
              LAMBDA w1 : [node |-> [node EXCEPT !.color = top_color(w1)],
                           w |-> stack_pop(w1)])
\* NodeVisitor.visit
walker_visit(node, w) ==
    CASE node.cls = "Module" -> visit_Module(node, w)
      [] node.cls \in {"FunctionDef", "Expr", "For", "While", "If", "Assign",
                       "AnnAssign", "Try"} -> push_and_visit(node, w)
      [] node.cls = "Call" -> visit_Call(node, w)
      [] node.cls = "Return" -> visit_Return(node, w)
      [] node.cls = "Break" -> visit_Break(node, w)
      [] OTHER -> generic_visit(node, w)

\* one turn of the loop of bluegreen: w.changes_made = False; w.visit(tree)
walk(tree, w) == walker_visit(tree, [w EXCEPT !.changes_made = FALSE])
RECURSIVE bluegreen_loop(_, _)
\* a coloring that walks the tree once
bluegreen_once(tree, w) == walker_visit(tree, [w EXCEPT !.changes_made = FALSE])
\* the loop of bluegreen: walk the tree until a walk changes nothing
bluegreen_loop(tree, w) ==
    With(walker_visit(tree, [w EXCEPT !.changes_made = FALSE]), LAMBDA r :
        IF r.w.err \/ ~r.w.changes_made THEN r ELSE bluegreen_loop(r.node, r.w))
\* coloring.bluegreen: the tree as the pass leaves it
bluegreen(tree) == bluegreen_loop(tree, BlueGreenWalker).node

(***************************************************************************)
(* variables.py: VariableRewriter.  visit(node, green) is the node that    *)
(* the visit returns when self.green is `green'.                           *)
(***************************************************************************)
RECURSIVE rewriter_visit(_, _)
rewriter_visit(node, green) ==
    LET visited(nodes, g) == [i \in 1..Len(nodes) |-> rewriter_visit(nodes[i], g)]
    IN  CASE node.cls = "FunctionDef" ->
                \* self.green = coloring.is_green(node) for the body
                [node EXCEPT !.kids = visited(node.kids, is_green(node))]
          [] node.cls = "Call" ->
                \* the args and the keywords are visited, the func is not
                [node EXCEPT !.kids = visited(node.kids, green)]
          [] node.cls = "Try" ->
                \* the bodies are visited, the handler types are not
                [node EXCEPT
                    !.kids = visited(node.kids, green),
                    !.handlers = [h \in 1..Len(node.handlers) |->
                                     [node.handlers[h] EXCEPT
                                         !.kids = visited(node.handlers[h].kids, green)]]]
          [] node.cls = "Name" ->
                IF green
                THEN PySubscript(PyName("env"), PyIndex(PyStr(node.id)))
                ELSE node
          [] OTHER ->
                \* NodeTransformer.generic_visit
                [node EXCEPT !.kids = visited(node.kids, green),
                             !.handlers = visited(node.handlers, green)]
\* variables.rewrite: VariableRewriter().visit(tree), self.green = 0
rewrite(tree) == rewriter_visit(tree, FALSE)

(***************************************************************************)
(* gensym.py: the names GenSym.__init__ collects from the Python AST.  An  *)
(* id of a Name is the sequence of its "_"-separated parts; the name of a  *)
(* FunctionDef, the parts of the dotted name of a Call and the type of an *)
(* ExceptHandler hold no "_".  The first part of the dotted name of a Call *)
(* and the type of an ExceptHandler are ast.Name nodes.                    *)
(***************************************************************************)
RECURSIVE NameWalker(_)
\* NameWalker: visit_Name adds node.id, visit_FunctionDef adds node.name
NameWalker(node) ==
    (IF node.cls = "Name" THEN {node.id} ELSE {})
        \cup (IF node.cls = "FunctionDef" THEN {Nm(node.id)} ELSE {})
        \cup (IF node.cls = "Call" /\ Len(node.func) > 0 THEN {Nm(node.func[1])} ELSE {})
        \cup (IF node.cls = "ExceptHandler" THEN {Nm(node.id)} ELSE {})
        \cup UNION {NameWalker(node.kids[i]) : i \in 1..Len(node.kids)}
        \cup UNION {NameWalker(node.handlers[i]) : i \in 1..Len(node.handlers)}

(***************************************************************************)
(* lift.py: CallLifter.  The lifter is [pre_statements, names, log]:       *)
(* names is the name set of gensym._gensym, log lists the statement        *)
(* sequences _transform_sequence was given with what it returned.  A visit *)
(* returns [node, l]; the node PyNone stands for the return value None.    *)
(***************************************************************************)
PyNone == PyNode("<None>", "", <<>>)
PyBinOp(left, right) == PyNode("BinOp", "", <<left, right>>)
PyNot(operand) == PyNode("UnaryOp", "Not", <<operand>>)
PyNameConstant(value) == PyNode("NameConstant", value, <<>>)
\* node.color = True
Green(node) == [node EXCEPT !.color = TRUE]
\* CallLifter.__init__
CallLifter(nameSet) == [pre_statements |-> <<>>, names |-> nameSet, log |-> <<>>]
\* self.pre_statements.append(lifted)
pre_append(l, lifted) == [l EXCEPT !.pre_statements = Append(@, lifted)]
\* gensym.gensym(prefix) adds the name it returns to the name set
gensym_add(l, name) == [l EXCEPT !.names = @ \cup {name}]

RECURSIVE lifter_visit(_, _), transform_sequence_loop(_, _, _, _),
          lift_call_args_loop(_, _, _, _), lift_nodes(_, _, _, _),
          lift_handlers(_, _, _)
\* the loop of _transform_sequence
transform_sequence_loop(nodelist, i, newbody, l) ==
    IF i > Len(nodelist) THEN [nodes |-> newbody, l |-> [l EXCEPT !.pre_statements = <<>>]]
    ELSE With(lifter_visit(nodelist[i], [l EXCEPT !.pre_statements = <<>>]), LAMBDA r :
            transform_sequence_loop(nodelist, i + 1,
                                    newbody \o r.l.pre_statements \o <<r.node>>, r.l))
\* CallLifter._transform_sequence
transform_sequence(nodelist, l) ==
    With(transform_sequence_loop(nodelist, 1, <<>>, l), LAMBDA r :
        [nodes |-> r.nodes,
         l |-> [r.l EXCEPT !.log = Append(@, [src |-> nodelist, out |-> r.nodes])]])
\* the loop of _lift_call_args: the new args
lift_call_args_loop(args, i, newargs, l) ==
    IF i > Len(args) THEN [nodes |-> newargs, l |-> l]
    ELSE IF args[i].cls = "Name"
    THEN lift_call_args_loop(args, i + 1, Append(newargs, args[i]), l)
    ELSE With(sym(l.names, Nm("a")), LAMBDA argVar :
            With(lifter_visit(args[i], gensym_add(l, argVar)), LAMBDA v :
                lift_call_args_loop(args, i + 1, Append(newargs, PyName(argVar)),
                    pre_append(v.l, Green(PyAssign(PyName(argVar), v.node))))))
\* CallLifter._lift_call_args: the call with its new args
lift_call_args(node, l) ==
    With(lift_call_args_loop(node.kids, 1, <<>>, l), LAMBDA r :
        [node |-> [node EXCEPT !.kids = r.nodes], l |-> r.l])
\* NodeTransformer.generic_visit on a list of nodes: a None is dropped
lift_nodes(nodes, i, out, l) ==
    IF i > Len(nodes) THEN [nodes |-> out, l |-> l]
    ELSE With(lifter_visit(nodes[i], l), LAMBDA r :
            lift_nodes(nodes, i + 1,
                       IF r.node = PyNone THEN out ELSE Append(out, r.node), r.l))
\* NodeTransformer.generic_visit
lift_generic_visit(node, l) ==
    With(lift_nodes(node.kids, 1, <<>>, l), LAMBDA k :
        With(lift_nodes(node.handlers, 1, <<>>, k.l), LAMBDA h :
            [node |-> [node EXCEPT !.kids = k.nodes, !.handlers = h.nodes], l |-> h.l]))
lift_FunctionDef(node, l) ==
    IF ~is_green(node) THEN [node |-> node, l |-> l]
    ELSE With(transform_sequence(node.kids, l), LAMBDA r :
            [node |-> [node EXCEPT !.kids = r.nodes], l |-> r.l])
\* visit_If: kids[1] is the test, the other kids are the body; orelse is empty
lift_If(node, l) ==
    IF ~is_green(node) THEN [node |-> node, l |-> l]
    ELSE With(transform_sequence(SubSeq(node.kids, 2, Len(node.kids)), l), LAMBDA b :
         With(transform_sequence(<<>>, b.l), LAMBDA e :
         With(lifter_visit(node.kids[1], e.l), LAMBDA t :
         With(sym(t.l.names, Nm("test")), LAMBDA testVar :
            [node |-> [node EXCEPT !.kids = <<PyName(testVar)>> \o b.nodes],
             l |-> pre_append(gensym_add(t.l, testVar),
                              PyAssign(PyName(testVar), PyCall(<<"bool">>, <<t.node>>)))]))))
\* visit_While: kids[1] is the test, the other kids are the body
lift_While(node, l) ==
    IF ~is_green(node) THEN [node |-> node, l |-> l]
    ELSE With(sym(l.names, Nm("test")), LAMBDA testVar :
         With(transform_sequence(
                  <<PyAssign(PyName(testVar), PyNot(PyCall(<<"bool">>, <<node.kids[1]>>))),
                    Green(PyIf(PyName(testVar), <<Green(PyBreak)>>))>>
                      \o SubSeq(node.kids, 2, Len(node.kids)),
                  gensym_add(l, testVar)), LAMBDA r :
            [node |-> [node EXCEPT !.kids = <<PyNameConstant("True")>> \o r.nodes],
             l |-> r.l]))
\* visit_Assign: kids are the target and the value
lift_Assign(node, l) ==
    IF ~is_green(node) THEN [node |-> node, l |-> l]
    ELSE IF node.kids[2].cls = "Call" THEN [node |-> node, l |-> l]
    ELSE lift_generic_visit([node EXCEPT !.color = FALSE], l)
lift_Call(node, l) ==
    IF ~is_green(node) THEN [node |-> node, l |-> l]
    ELSE With(lift_call_args(node, l), LAMBDA r :
         With(sym(r.l.names, Nm("call")), LAMBDA resultVar :
            [node |-> PyName(resultVar),
             l |-> pre_append(gensym_add(r.l, resultVar),
                              Green(PyAssign(PyName(resultVar), r.node)))]))
lift_Expr(node, l) ==
    IF node.kids[1].cls = "Call"
    THEN IF ~is_green(node.kids[1]) THEN [node |-> PyNone, l |-> l]
         ELSE With(lift_call_args(node.kids[1], l), LAMBDA r :
                 [node |-> [node EXCEPT !.kids = <<r.node>>], l |-> r.l])
    ELSE [node |-> node, l |-> l]
\* visit_Return: kids is the value, if there is one
lift_Return(node, l) ==
    IF ~is_green(node) THEN [node |-> PyNone, l |-> l]
    ELSE IF Len(node.kids) = 0 THEN [node |-> node, l |-> l]
    ELSE IF node.kids[1].cls \in {"Num", "Str", "NameConstant", "Name"}
    THEN [node |-> node, l |-> l]
    ELSE With(sym(l.names, Nm("ret")), LAMBDA tmpVar :
         With(lifter_visit(node.kids[1], gensym_add(l, tmpVar)), LAMBDA v :
            IF v.node.cls = "Name"
            THEN [node |-> Green(PyReturn(<<v.node>>)), l |-> v.l]
            ELSE [node |-> Green(PyReturn(<<PyName(tmpVar)>>)),
                  l |-> pre_append(v.l, PyAssign(PyName(tmpVar), v.node))]))
\* the loop `for h in node.handlers' of visit_Try
lift_handlers(handlers, i, l) ==
    IF i > Len(handlers) THEN [nodes |-> handlers, l |-> l]
    ELSE With(transform_sequence(handlers[i].kids, l), LAMBDA r :
            lift_handlers([handlers EXCEPT ![i].kids = r.nodes], i + 1, r.l))
lift_Try(node, l) ==
    IF ~is_green(node) THEN [node |-> PyNone, l |-> l]
    ELSE With(transform_sequence(node.kids, l), LAMBDA b :
         With(lift_handlers(node.handlers, 1, b.l), LAMBDA h :
            [node |-> [node EXCEPT !.kids = b.nodes, !.handlers = h.nodes], l |-> h.l]))
\* NodeTransformer.visit
lifter_visit(node, l) ==
    CASE node.cls = "FunctionDef" -> lift_FunctionDef(node, l)
      [] node.cls = "If" -> lift_If(node, l)
      [] node.cls = "While" -> lift_While(node, l)
      [] node.cls = "Assign" -> lift_Assign(node, l)
      [] node.cls = "Call" -> lift_Call(node, l)
      [] node.cls = "Expr" -> lift_Expr(node, l)
      [] node.cls = "Return" -> lift_Return(node, l)
      [] node.cls = "Try" -> lift_Try(node, l)
      [] OTHER -> lift_generic_visit(node, l)
\* lift.calls: CallLifter().visit(tree)
calls(tree, nameSet) == lifter_visit(tree, CallLifter(nameSet))

VARIABLES
    pySource,          \* the Python AST before the pass under study
    pyTree,            \* the Python AST as the pass has left it
    passRuns,          \* how many times the pass has run on pyTree
    greenNode,         \* the green ast.Call handed to cast.transform_green_node
    greenResult,       \* what transform_green_node returned or raised for it
    walker,            \* the BlueGreenWalker of the coloring under way
    walks,             \* how many times the walker has walked pyTree
    requests,          \* the fresh-name requests under study: prefix and name returned
    pc,                \* the pass of coco.coco that ran last, or "error"
    cfg,               \* the Config
    cast,              \* Aggregate.cast
    names,             \* GenSym.names
    pythonFunctions,   \* Aggregate.pythonFunctions, in insertion order
    routerFunc,        \* asfast.routerFunc
    workflowAst,       \* Aggregate.workflowAst.defs
    workflowGraphs,    \* Aggregate.workflowGraphs, in insertion order
    files,             \* the <name>.sfn.json files written by emit_json
    run,               \* the number of the compilation in this process
    source,            \* the CAST that cast.build makes of the source file
    firstRun           \* what the first compilation left behind

\* the state of the passes from cast.remove_python on
pipeline == <<pc, cfg, cast, names, pythonFunctions, routerFunc, workflowAst,
              workflowGraphs, files, globals, run, source, firstRun>>
\* the compilations of the process
process == <<run, source, firstRun>>
\* the state of the passes on the Python AST
frontEnd == <<pySource, pyTree, passRuns, greenNode, greenResult, walker, walks,
              requests>>
vars == <<pipeline, frontEnd>>

\* no pass on the Python AST is under way
CallIdle ==
    /\ greenNode = AstCall(<<>>, <<>>, <<>>)
    /\ greenResult = NotCalled
WalkIdle ==
    /\ walker = BlueGreenWalker
    /\ walks = 0
SymIdle == requests = <<>>
TreeIdle ==
    /\ pySource = PyModule(<<>>)
    /\ pyTree = PyModule(<<>>)
    /\ passRuns = 0
    /\ WalkIdle
    /\ SymIdle
FrontEndIdle == CallIdle /\ TreeIdle
\* GenSym.__init__: the names of the tree
GenSym(tree) == {Nm("f"), Nm("x"), Nm("a"), Nm("v"), Nm("t")}
\* gensym_init: the value of _gensym.names
gensym_init(tree) == GenSym(tree)
\* the globals of asfast.py before the first init_state
ModuleGlobals ==
    [used |-> {}, break_target_stack |-> <<>>, continue_target_stack |-> <<>>,
     exception_handler_stack |-> <<>>, exception_handler_map |-> <<>>,
     layoutStack |-> <<>>, routerFunc |-> NoneVal, err |-> FALSE]
\* what a compilation leaves behind: where it ended, its outputs, and the
\* names it handed out
Outcome(endPc, helpers, router, graphs, jsonFiles, symNames, stateNames) ==
    [pc |-> endPc, pythonFunctions |-> helpers, routerFunc |-> router,
     workflowGraphs |-> graphs, files |-> jsonFiles, names |-> symNames,
     used |-> stateNames]
NoOutcome == Outcome("none", <<>>, NoneVal, <<>>, <<>>, {}, {})

\* no compilation is under way
PipelineIdle ==
    /\ pc = "idle"
    /\ cfg = [use_router_func |-> FALSE]
    /\ cast = Module(<<>>)
    /\ names = {}
    /\ pythonFunctions = <<>>
    /\ routerFunc = NoneVal
    /\ workflowAst = <<>>
    /\ workflowGraphs = <<>>
    /\ files = <<>>
    /\ globals = ModuleGlobals
    /\ run = 1
    /\ source = cast
    /\ firstRun = NoOutcome

Init ==
    /\ pc = "cast.build"
    /\ cfg \in {[use_router_func |-> b] : b \in BOOLEAN}
    /\ cast \in Programs
    /\ names = gensym_init(cast)
    /\ pythonFunctions = <<>>
    /\ routerFunc = NoneVal
    /\ workflowAst = <<>>
    /\ workflowGraphs = <<>>
    /\ files = <<>>
    /\ globals = ModuleGlobals
    /\ run = 1
    /\ source = cast
    /\ firstRun = NoOutcome
    /\ FrontEndIdle

\* pass "Eliminate PythonAST nodes from CAST"
RemovePython ==
    /\ pc = "cast.build"
    /\ LET r == remove_python(cast, names, pythonFunctions)
       IN  /\ cast' = r.node
           /\ names' = r.st.names
           /\ pythonFunctions' = r.st.pythonFunctions
    /\ pc' = "cast.remove_python"
    /\ UNCHANGED <<cfg, routerFunc, workflowAst, workflowGraphs, files>>
    /\ UNCHANGED <<globals, process, frontEnd>>

\* asfast.routerFunc after init_state
router_of(config, nameSet) ==
    IF config.use_router_func THEN sym(nameSet, Nm("router")) ELSE NoneVal

\* pass "Build AWS Step Functions AST (ASFAST)"; an exception ends the compilation
Build ==
    /\ pc = "cast.remove_python"
    /\ routerFunc' = router_of(cfg, names)
    /\ names' = IF cfg.use_router_func THEN names \cup {router_of(cfg, names)} ELSE names
    /\ \E r \in {build(cast, router_of(cfg, names))} :
          /\ globals' = r.ctx
          /\ IF r.ctx.err
             THEN pc' = "error" /\ UNCHANGED workflowAst
             ELSE pc' = "asfast.build" /\ workflowAst' = r.states
    /\ UNCHANGED <<cfg, cast, pythonFunctions, workflowGraphs, files>>
    /\ UNCHANGED <<process, frontEnd>>

\* pass "Remove extra pass nodes from step function"
RemovePass ==
    /\ pc = "asfast.build"
    /\ workflowAst' = remove_pass(workflowAst)
    /\ pc' = "asfast.remove_pass"
    /\ UNCHANGED <<cfg, cast, names, pythonFunctions, routerFunc, workflowGraphs, files>>
    /\ UNCHANGED <<globals, process, frontEnd>>

\* pass "Build AWS Step Functions Visualization Graph"
BuildGraphs ==
    /\ pc = "asfast.remove_pass"
    /\ workflowGraphs' = [d \in 1..Len(workflowAst) |->
                             [name |-> workflowAst[d].name, graph |-> graph(workflowAst[d])]]
    /\ workflowAst' = [d \in 1..Len(workflowAst) |-> remove_layout(workflowAst[d])]
    /\ pc' = "asfast.build_graphs"
    /\ UNCHANGED <<cfg, cast, names, pythonFunctions, routerFunc, files>>
    /\ UNCHANGED <<globals, process, frontEnd>>

\* pass "Emit JSON for AWS Step Functions and their visualizations"
EmitJson ==
    /\ pc = "asfast.build_graphs"
    /\ files' = [d \in 1..Len(workflowAst) |->
                    [name |-> workflowAst[d].name, json |-> sf_to_dict(workflowAst[d])]]
    /\ pc' = "asfast.emit_json"
    /\ UNCHANGED <<cfg, cast, names, pythonFunctions, routerFunc, workflowAst, workflowGraphs>>
    /\ UNCHANGED <<globals, process, frontEnd>>

Next ==
    \/ RemovePython
    \/ Build
    \/ RemovePass
    \/ BuildGraphs
    \/ EmitJson

Spec == Init /\ [][Next]_vars

(***************************************************************************)
(* variables.rewrite on the Python AST of one function, run once and run   *)
(* again on its own output.                                                *)
(***************************************************************************)
\* cohesion.Lambda.foo(a, timeout = 5)
PyTask == PyCall(<<"cohesion", "Lambda", "foo">>, <<PyName("a"), PyNum>>)
\* the statements of the function
PyStmts ==
    {PyAssign(PyName("x"), PyTask),
     PyExpr(PyTask),
     PyAssign(PyName("y"), PyName("x")),
     PyReturn(<<PyName("y")>>),
     PyWhile(PyName("t"), <<PyBreak>>),
     PyTry(<<PyExpr(PyTask)>>, <<PyExceptHandler("E1", <<PyReturn(<<PyName("y")>>)>>)>>)}
RECURSIVE PyBodies(_)
\* the bodies of n statements
PyBodies(n) ==
    IF n = 0 THEN {<<>>}
    ELSE {<<st>> \o r : st \in PyStmts, r \in PyBodies(n - 1)}
\* a module of one function, green or blue
RewriteTrees ==
    UNION {{PyModule(<<[PyFunctionDef("f", b) EXCEPT !.color = c]>>)
               : b \in PyBodies(n), c \in BOOLEAN} : n \in 1..MaxStmts}

RewriteInit ==
    /\ PipelineIdle
    /\ CallIdle
    /\ pySource \in RewriteTrees
    /\ pyTree = pySource
    /\ passRuns = 0
    /\ WalkIdle
    /\ SymIdle

\* pass "Rewrite variable accesses to use a dictionary"
Rewrite ==
    /\ passRuns < 2
    /\ pyTree' = rewrite(pyTree)
    /\ passRuns' = passRuns + 1
    /\ UNCHANGED <<pySource, greenNode, greenResult, walker, walks, requests,
                   pipeline>>

RewriteNext == Rewrite

RewriteSpec == RewriteInit /\ [][RewriteNext]_vars

(***************************************************************************)
(* coloring.bluegreen on the Python AST of a module of two functions, run  *)
(* once and run again on its own output.                                   *)
(***************************************************************************)
\* g()
PyCallG == PyCall(<<"g">>, <<>>)
\* the statements of the functions
ColorStmts ==
    {PyAssign(PyName("x"), PyTask),
     PyExpr(PyTask),
     PyExpr(PyCallG),
     PyExpr(PyCall(<<"print">>, <<PyTask>>)),
     PyAssign(PyName("y"), PyName("x")),
     PyReturn(<<PyName("y")>>),
     PyReturn(<<>>),
     PyWhile(PyName("t"), <<PyBreak>>),
     PyWhile(PyName("t"), <<PyBreak, PyExpr(PyCallG)>>),
     PyIf(PyName("t"), <<PyExpr(PyTask)>>),
     PyTry(<<PyExpr(PyCallG)>>, <<PyExceptHandler("E1", <<PyReturn(<<>>)>>)>>)}
RECURSIVE ColorBodies(_)
\* the bodies of n statements
ColorBodies(n) ==
    IF n = 0 THEN {<<>>}
    ELSE {<<st>> \o r : st \in ColorStmts, r \in ColorBodies(n - 1)}
\* def f(): ... and def g(): ..., not yet colored
ColorTrees ==
    UNION {{PyModule(<<PyFunctionDef("f", b), PyFunctionDef("g", <<st>>)>>)
               : b \in ColorBodies(n), st \in ColorStmts} : n \in 1..MaxStmts}

ColorInit ==
    /\ PipelineIdle
    /\ CallIdle
    /\ pySource \in ColorTrees
    /\ pyTree = pySource
    /\ passRuns = 0
    /\ WalkIdle
    /\ SymIdle

\* pass "blue-green coloring"
Bluegreen ==
    /\ passRuns < 2
    /\ pyTree' = bluegreen(pyTree)
    /\ passRuns' = passRuns + 1
    /\ UNCHANGED <<pySource, greenNode, greenResult, walker, walks, requests,
                   pipeline>>

ColorNext == Bluegreen

ColorSpec == ColorInit /\ [][ColorNext]_vars

(***************************************************************************)
(* coloring.bluegreen on a module where f calls g by its bare name, as a   *)
(* statement, as the right-hand side of an assignment, as an argument of a *)
(* call and as a return value, with the two functions in either order.     *)
(***************************************************************************)
\* the statements of the caller
CallerStmts ==
    {PyExpr(PyCallG),
     PyAssign(PyName("x"), PyCallG),
     PyExpr(PyCall(<<"print">>, <<PyCallG>>)),
     PyExpr(PyCall(<<"cohesion", "Lambda", "foo">>, <<PyCallG>>)),
     PyReturn(<<PyCallG>>),
     PyExpr(PyTask),
     PyAssign(PyName("y"), PyName("x"))}
RECURSIVE CallerBodies(_)
\* the bodies of n statements
CallerBodies(n) ==
    IF n = 0 THEN {<<>>}
    ELSE {<<st>> \o r : st \in CallerStmts, r \in CallerBodies(n - 1)}
\* the bodies of the callee: it calls a task, or it does not
CalleeBodies == {<<PyExpr(PyTask)>>, <<PyAssign(PyName("y"), PyName("x"))>>}
\* def f(): ... and def g(): ... in either order, not yet colored
CallerTrees ==
    UNION {{PyModule(IF gFirst THEN <<PyFunctionDef("g", c), PyFunctionDef("f", b)>>
                     ELSE <<PyFunctionDef("f", b), PyFunctionDef("g", c)>>)
               : b \in CallerBodies(n), c \in CalleeBodies, gFirst \in BOOLEAN}
           : n \in 1..MaxStmts}

CallerInit ==
    /\ PipelineIdle
    /\ CallIdle
    /\ pySource \in CallerTrees
    /\ pyTree = pySource
    /\ passRuns = 0
    /\ WalkIdle
    /\ SymIdle

CallerNext == Bluegreen

CallerSpec == CallerInit /\ [][CallerNext]_vars

(***************************************************************************)
(* The loop of coloring.bluegreen, one walk of the tree at a time: the     *)
(* walker is created, and the tree is walked until a walk makes no change  *)
(* or raises.                                                              *)
(***************************************************************************)
WalkInit ==
    /\ PipelineIdle
    /\ CallIdle
    /\ pySource \in ColorTrees \cup CallerTrees
    /\ pyTree = pySource
    /\ passRuns = 0
    /\ WalkIdle
    /\ SymIdle

\* the loop has been left: the last walk changed nothing, or it raised
LoopExited == walks > 0 /\ (walker.err \/ ~walker.changes_made)

\* while True: w.changes_made = False; w.visit(tree); if not w.changes_made: break
Walk ==
    /\ ~LoopExited
    /\ walks < MaxWalks
    /\ pyTree' = walk(pyTree, walker).node
    /\ walker' = walk(pyTree, walker).w
    /\ walks' = walks + 1
    /\ UNCHANGED <<pySource, passRuns, greenNode, greenResult, requests, pipeline>>

WalkNext == Walk

WalkSpec == WalkInit /\ [][WalkNext]_vars

(***************************************************************************)
(* The passes gensym_init, coloring.bluegreen and lift.calls of coco.coco  *)
(* on the Python AST of a module: a workflow function f and a function g   *)
(* that calls no task.                                                     *)
(***************************************************************************)
\* cohesion.Lambda.foo(...)
LiftTask(args) == PyCall(<<"cohesion", "Lambda", "foo">>, args)
\* print(x)
PrintX == PyCall(<<"print">>, <<PyName(Nm("x"))>>)
\* the statements of the workflow function
LiftStmts ==
    {PyExpr(LiftTask(<<PyName(Nm("a")), PyNum>>)),
     PyExpr(LiftTask(<<LiftTask(<<PyName(Nm("a"))>>)>>)),
     PyAssign(PyName(Nm("x")), LiftTask(<<PyName(Nm("a"))>>)),
     PyAssign(PyName(Nm("x")), LiftTask(<<PyNum>>)),
     PyAssign(PyName(Nm("x")), LiftTask(<<LiftTask(<<PyName(Nm("a"))>>)>>)),
     PyAssign(PyName(Nm("y")), PyBinOp(LiftTask(<<PyName(Nm("a"))>>), PyNum)),
     PyAssign(PyName(Nm("y")), PyName(Nm("x"))),
     PyExpr(PrintX),
     PyReturn(<<PyName(Nm("y"))>>),
     PyReturn(<<LiftTask(<<PyName(Nm("a"))>>)>>),
     PyReturn(<<PyBinOp(PyName(Nm("x")), PyNum)>>),
     PyIf(LiftTask(<<PyName(Nm("a"))>>), <<PyExpr(PrintX)>>),
     PyWhile(PyName(Nm("t")), <<PyExpr(LiftTask(<<PyName(Nm("a"))>>)), PyBreak>>),
     PyWhile(LiftTask(<<PyName(Nm("a"))>>), <<PyExpr(PrintX)>>),
     PyTry(<<PyExpr(LiftTask(<<PyName(Nm("a"))>>))>>,
           <<PyExceptHandler("E1", <<PyAssign(PyName(Nm("y")), PyName(Nm("x")))>>)>>),
     PyTry(<<PyExpr(PrintX)>>, <<PyExceptHandler("E1", <<PyReturn(<<>>)>>)>>)}
RECURSIVE LiftBodies(_)
\* the bodies of n statements
LiftBodies(n) ==
    IF n = 0 THEN {<<>>}
    ELSE {<<st>> \o r : st \in LiftStmts, r \in LiftBodies(n - 1)}
\* def f(): ... and def g(): print(x), as the parser gives them
LiftTrees ==
    UNION {{PyModule(<<PyFunctionDef("f", b), PyFunctionDef("g", <<PyExpr(PrintX)>>)>>)
               : b \in LiftBodies(n)} : n \in 1..MaxStmts}

LiftInit ==
    /\ PipelineIdle
    /\ CallIdle
    /\ pySource \in LiftTrees
    /\ pyTree = pySource
    /\ passRuns = 0
    /\ WalkIdle
    /\ SymIdle

\* pass "Initialize name table to allow generating unique names"
GensymInit ==
    /\ pc = "idle"
    /\ names' = NameWalker(pyTree)
    /\ pc' = "gensym.gensym_init"
    /\ UNCHANGED <<cfg, cast, pythonFunctions, routerFunc, workflowAst, workflowGraphs,
                   files, globals, process, frontEnd>>

\* pass "blue-green coloring"
ColorTree ==
    /\ pc = "gensym.gensym_init"
    /\ pyTree' = bluegreen(pyTree)
    /\ pc' = "coloring.bluegreen"
    /\ UNCHANGED <<cfg, cast, names, pythonFunctions, routerFunc, workflowAst,
                   workflowGraphs, files, globals, process>>
    /\ UNCHANGED <<pySource, passRuns, greenNode, greenResult, walker, walks,
                   requests>>

\* pass "Lift remote calls out of Python exprs"
LiftCalls ==
    /\ pc = "coloring.bluegreen"
    /\ pyTree' = calls(pyTree, names).node
    /\ names' = calls(pyTree, names).l.names
    /\ pc' = "lift.calls"
    /\ UNCHANGED <<cfg, cast, pythonFunctions, routerFunc, workflowAst, workflowGraphs,
                   files, globals, process>>
    /\ UNCHANGED <<pySource, passRuns, greenNode, greenResult, walker, walks,
                   requests>>

LiftNext == GensymInit \/ ColorTree \/ LiftCalls

LiftSpec == LiftInit /\ [][LiftNext]_vars

(***************************************************************************)
(* Helper extraction on modules with a statement before the workflow       *)
(* function, and with two workflow functions.                              *)
(***************************************************************************)
\* the bodies of a workflow function with blue statements in them
HelperBodies ==
    {<<RawBlock>>, <<ActivityVoid, RawBlock>>, <<RawBlock, ActivityVoid, RawBlock>>,
     <<If("t", <<RawBlock>>, <<RawBlock>>)>>, <<WhileLoop("True", <<RawBlock, Break>>)>>,
     <<Try(<<RawBlock>>, <<handler(<<"E1">>, "e", <<ActivityVoid>>)>>)>>, <<AssignRaw>>}
\* def f, or def f and def g, after nothing or after a run of blue statements
\* (an import, a function nothing calls remotely)
HelperModules ==
    LET defs == {<<Def(Nm("f"), <<>>, b)>> : b \in HelperBodies}
                  \cup {<<Def(Nm("f"), <<>>, b), Def(Nm("g"), <<>>, c)>> :
                           b \in HelperBodies, c \in HelperBodies}
    IN  {Module(lead \o d) : lead \in {<<>>, <<RawBlock>>}, d \in defs}

HelperInit ==
    /\ pc = "cast.build"
    /\ cfg = [use_router_func |-> FALSE]
    /\ cast \in HelperModules
    /\ names = gensym_init(cast)
    /\ pythonFunctions = <<>>
    /\ routerFunc = NoneVal
    /\ workflowAst = <<>>
    /\ workflowGraphs = <<>>
    /\ files = <<>>
    /\ globals = ModuleGlobals
    /\ run = 1
    /\ source = cast
    /\ firstRun = NoOutcome
    /\ FrontEndIdle

HelperNext == RemovePython

HelperSpec == HelperInit /\ [][HelperNext]_vars

(***************************************************************************)
(* The fresh-name supply after gensym_init: requests of the prefixes the   *)
(* passes use (lift.py: a, call; cast.py: f_func) on the name set of a     *)
(* program with parameters and exception bindings.                         *)
(***************************************************************************)
\* print(n)
PrintName(n) == PyExpr(PyCall(<<"print">>, <<PyName(n)>>))
\* the parameter lists of the function
SymParams == {<<>>, <<Nm("x")>>, <<<<"a", "1">>>>, <<Nm("x"), <<"call", "1">>>>}
\* the bodies of the function: uses of x, a_1, a_2 and f_func_1, and a try
\* with a clause `except E1 as <binding>'
SymBodies ==
    {<<PrintName(n)>> : n \in {Nm("x"), <<"a", "1">>, <<"f", "func", "1">>}}
        \cup {<<PrintName(<<"a", "1">>), PrintName(<<"a", "2">>)>>}
        \cup {<<PyTry(<<PrintName(Nm("x"))>>,
                      <<[PyExceptHandler("E1", <<PrintName(n)>>) EXCEPT !.bound = <<b>>]>>)>>
                : n \in {Nm("x"), <<"call", "1">>}, b \in {Nm("e"), <<"call", "1">>}}
\* def f(<params>): <body>
SymTrees ==
    {PyModule(<<[PyFunctionDef("f", b) EXCEPT !.bound = ps]>>) :
        ps \in SymParams, b \in SymBodies}
\* the prefixes asked for
SymPrefixes == {Nm("a"), Nm("call"), <<"f", "func">>}

SymInit ==
    /\ PipelineIdle
    /\ CallIdle
    /\ pySource \in SymTrees
    /\ pyTree = pySource
    /\ passRuns = 0
    /\ WalkIdle
    /\ SymIdle

\* gensym.gensym(prefix): _gensym.sym(prefix), which adds the name it returns
Gensym ==
    /\ pc = "gensym.gensym_init"
    /\ Len(requests) < MaxRequests
    /\ \E prefix \in SymPrefixes :
          /\ names' = names \cup {sym(names, prefix)}
          /\ requests' = Append(requests, [prefix |-> prefix, name |-> sym(names, prefix)])
    /\ UNCHANGED <<pc, cfg, cast, pythonFunctions, routerFunc, workflowAst, workflowGraphs,
                   files, globals, process>>
    /\ UNCHANGED <<pySource, pyTree, passRuns, greenNode, greenResult, walker, walks>>

SymNext == GensymInit \/ Gensym

SymSpec == SymInit /\ [][SymNext]_vars

(***************************************************************************)
(* Two compilations of one source file with one Config in one process, as  *)
(* two calls of coco.coco make them: the module globals of gensym.py and   *)
(* asfast.py and the files written are those the first compilation left.   *)
(***************************************************************************)
\* the source files compiled twice
TwicePrograms ==
    UNION {{Workflow(b) : b \in SeqsOfSize(n, FALSE)} : n \in 1..(MaxSize - 1)}
        \cup {Workflow(<<Try(<<ActivityVoid>>, hs)>>) : hs \in ClauseLists(1)}
        \cup ValuePrograms

TwiceInit ==
    /\ Init
    /\ cast \in TwicePrograms

\* coco.coco is called again: the passes up to cast.build run on the source
Recompile ==
    /\ run = 1
    /\ pc \in {"asfast.emit_json", "error"}
    /\ firstRun' = Outcome(pc, pythonFunctions, routerFunc, workflowGraphs, files,
                           names, globals.used)
    /\ run' = 2
    /\ names' = gensym_init(source)
    /\ cast' = source
    /\ pythonFunctions' = <<>>
    /\ workflowAst' = <<>>
    /\ workflowGraphs' = <<>>
    /\ pc' = "cast.build"
    /\ UNCHANGED <<cfg, routerFunc, files, globals, source, frontEnd>>

TwiceNext ==
    \/ RemovePython
    \/ Build
    \/ RemovePass
    \/ BuildGraphs
    \/ EmitJson
    \/ Recompile

TwiceSpec == TwiceInit /\ [][TwiceNext]_vars

(***************************************************************************)
(* cast.build on one green call: the calls with up to MaxKeywords keyword  *)
(* arguments.                                                              *)
(***************************************************************************)
RECURSIVE KeywordLists(_)
KeywordLists(n) ==
    IF n = 0 THEN {<<>>}
    ELSE {<<keyword(a, v)>> \o r : a \in KeywordNames, v \in KeywordValues,
                                    r \in KeywordLists(n - 1)}
GreenCalls ==
    UNION {{AstCall(<<Nm("cohesion"), Nm("Lambda"), Nm("foo")>>, <<"a">>, ks)
               : ks \in KeywordLists(n)} : n \in 0..MaxKeywords}

CallInit ==
    /\ PipelineIdle
    /\ TreeIdle
    /\ greenNode \in GreenCalls
    /\ greenResult = NotCalled

TransformGreenCall ==
    /\ greenNode \in GreenCalls
    /\ greenResult = NotCalled
    /\ \E r \in {transform_green_call(greenNode)} :
          greenResult' = IF r.err THEN Raised ELSE Returned(r.value)
    /\ UNCHANGED <<greenNode, pySource, pyTree, passRuns, walker, walks, requests,
                   pipeline>>

CallNext == TransformGreenCall

CallSpec == CallInit /\ [][CallNext]_vars

(***************************************************************************)
(* The vocabulary of the properties.                                       *)
(***************************************************************************)
\* the workflows exist from the build on; pass elimination makes them final
Built == pc = "asfast.build"
Eliminated == pc = "asfast.remove_pass"
\* the states of all workflows
AllStates ==
    UNION {{workflowAst[d].states[i] : i \in 1..Len(workflowAst[d].states)}
           : d \in 1..Len(workflowAst)}
\* the names of the states of a workflow
NamesOf(asf) == {asf.states[i].name : i \in 1..Len(asf.states)}
\* a state has a next
HasNext(s) == Truthy(s.nxt) /\ Len(s.nxt) > 0

PinnedBy(asf, name) ==
    {s \in {asf.states[i] : i \in 1..Len(asf.states)} :
        \/ s.cls = "Break" /\ s.nxt = name
        \/ /\ s.cls = "ChoiceState"
           /\ \/ s.default = name
              \/ \E c \in 1..Len(s.choices) : s.choices[c].nxt = name}

C3_NextXorEnd ==
    (Built \/ Eliminated) =>
        \A s \in AllStates : s.cls # "ChoiceState" => (HasNext(s) <=> ~s.end)

(***************************************************************************)
(* C4.  Within each workflow the state names are pairwise distinct.        *)
(***************************************************************************)
C4_UniqueStateNames ==
    \A d \in 1..Len(workflowAst) :
        \A i, j \in 1..Len(workflowAst[d].states) :
            i # j => workflowAst[d].states[i].name # workflowAst[d].states[j].name

\* the callee foo_1 is called after two calls of foo took the names foo and
\* foo_1: its state is named foo_1_1
C4_Witness ==
    /\ Built
    /\ \E s1, s2, s3 \in AllStates :
          /\ s1.src.k = "Call" /\ s1.src.func[Len(s1.src.func)] = Nm("foo")
          /\ s1.name = Nm("foo")
          /\ s2.src.k = "Call" /\ s2.src.func[Len(s2.src.func)] = Nm("foo")
          /\ s2.name = <<"foo", "1">>
          /\ s3.src.k = "Call" /\ s3.src.func[Len(s3.src.func)] = <<"foo", "1">>
          /\ s3.name = <<"foo", "1", "1">>

RECURSIVE HasRawBlock(_)
\* a PythonAST node occurs in the tree of node: as the node itself, as the
\* value of an Assign, in a body, in an else branch or in an except clause
HasRawBlock(node) ==
    \/ node.k = "PythonAST"
    \/ \E i \in 1..Len(node.value) : HasRawBlock(node.value[i])
    \/ \E i \in 1..Len(node.body) : HasRawBlock(node.body[i])
    \/ \E i \in 1..Len(node.orelse) : HasRawBlock(node.orelse[i])
    \/ \E h \in 1..Len(node.handlers) :
          \E i \in 1..Len(node.handlers[h].body) : HasRawBlock(node.handlers[h].body[i])

(***************************************************************************)
(* C5.  After helper extraction the CAST holds no PythonAST node anywhere, *)
(* the bodies of except clauses included.                                  *)
(***************************************************************************)
C5_NoRawBlock ==
    pc = "cast.remove_python" => ~HasRawBlock(cast)

(***************************************************************************)
(* C6.  Every Task-family state created while an exception handler map is  *)
(* in effect carries one catch entry per error type of that map, whose     *)
(* Next is the first state of the handler body for the type; this holds    *)
(* for the Lambda states of helper calls too.                              *)
(***************************************************************************)
C6_CatchFromHandlerMap ==
    Built =>
        \A s \in AllStates :
            (s.typ = "Task" /\ Len(s.ehm) > 0) =>
                /\ ~s.catch.none
                /\ Len(s.catch.items) = Len(s.ehm)
                /\ \A i \in 1..Len(s.ehm) :
                      /\ s.catch.items[i].ErrorEquals = <<s.ehm[i].typ>>
                      /\ s.catch.items[i].Next = s.ehm[i].stateName

\* the except clauses in effect at the creation of s are the clauses of one
\* try statement at the top level of a workflow function
ClausesOfOneTry(s) ==
    \E d \in 1..Len(cast.body) :
        \E k \in 1..Len(cast.body[d].body) :
            /\ cast.body[d].body[k].k = "Try"
            /\ Len(cast.body[d].body[k].handlers) = Len(s.ehs)
            /\ \A i \in 1..Len(s.ehs) : cast.body[d].body[k].handlers[i] = s.ehs[i].handler
\* the error types of an except clause
TypesOf(h) == {h.types[i] : i \in 1..Len(h.types)}

(***************************************************************************)
(* C7.  When several except clauses of one try list the same error type,   *)
(* the catch entry for the type on a state of the try body points to the   *)
(* first state of the clause that comes first in source order.             *)
(***************************************************************************)
C7_FirstHandlerWins ==
    Built =>
        \A s \in AllStates :
            (s.typ = "Task" /\ ~s.catch.none /\ ClausesOfOneTry(s)) =>
                \A c \in 1..Len(s.catch.items) :
                    LET typ == s.catch.items[c].ErrorEquals[1]
                        listing == {i \in 1..Len(s.ehs) : typ \in TypesOf(s.ehs[i].handler)}
                        first == CHOOSE i \in listing : \A j \in listing : i <= j
                    IN  listing # {} => s.catch.items[c].Next = s.ehs[first].stateName

\* the value of the item `key' of a JSON object is n
HasNumber(items, key, n) ==
    \E k \in 1..Len(items) : items[k].key = key /\ items[k].value = n

(***************************************************************************)
(* C8.  The timeout and heartbeat of a cohesion.activity / cohesion.Lambda *)
(* call are the timeoutSeconds / heartbeatSeconds of the state emitted for *)
(* it, and TimeoutSeconds / HeartbeatSeconds of that state in the workflow *)
(* JSON.                                                                   *)
(***************************************************************************)
C8_TimeoutCarried ==
    /\ \A s \in AllStates :
          (s.typ = "Task" /\ s.src.k = "Call") =>
              /\ s.src.timeoutSec # NoneNum => s.timeoutSeconds = s.src.timeoutSec
              /\ s.src.heartbeatSec # NoneNum => s.heartbeatSeconds = s.src.heartbeatSec
    /\ pc = "asfast.emit_json" =>
          \A d \in 1..Len(files) :
              \A i \in 1..Len(workflowAst[d].states) :
                  LET s == workflowAst[d].states[i]
                      json == files[d].json[2].value[i].value
                  IN  (s.typ = "Task" /\ s.src.k = "Call") =>
                          /\ s.src.timeoutSec # NoneNum =>
                                HasNumber(json, "TimeoutSeconds", s.src.timeoutSec)
                          /\ s.src.heartbeatSec # NoneNum =>
                                HasNumber(json, "HeartbeatSeconds", s.src.heartbeatSec)

\* s is a state of the body of the loop the Break b leaves: it was created
\* under the break target of b
InLoopOf(s, b) ==
    /\ Len(s.bts) >= Len(b.bts)
    /\ SubSeq(s.bts, 1, Len(b.bts)) = b.bts

\* the state of a workflow that has the name
Named(asf, name) == CHOOSE s \in {asf.states[i] : i \in 1..Len(asf.states)} : s.name = name
RECURSIVE AfterLoop(_, _, _, _)
\* the first state after a loop in the final workflow: the loop-exit
\* placeholder if it is still there, else the first state still there on the
\* path of next edges that leaves the placeholder in the built workflow, else
\* none
AfterLoop(built, final, name, fuel) ==
    IF name \in NamesOf(final) THEN name
    ELSE IF fuel = 0 \/ name \notin NamesOf(built) \/ ~HasNext(Named(built, name))
    THEN EmptyStr
    ELSE AfterLoop(built, final, Named(built, name).nxt, fuel - 1)
RECURSIVE LeavesLoop(_, _, _, _, _)
\* the path of next edges from the state `name' reaches `target', or a
\* terminal state if there is no target, before any state of the loop of b
LeavesLoop(final, b, name, target, fuel) ==
    \/ name = target
    \/ /\ fuel > 0
       /\ name \in NamesOf(final)
       /\ ~InLoopOf(Named(final, name), b)
       /\ \/ target = EmptyStr /\ Named(final, name).end
          \/ /\ HasNext(Named(final, name))
             /\ LeavesLoop(final, b, Named(final, name).nxt, target, fuel - 1)

(***************************************************************************)
(* C9.  In the final workflow the path of next edges from a Break leaves   *)
(* its loop: it reaches the first state after the loop, or a terminal      *)
(* state when nothing follows the loop, without visiting a state of the    *)
(* body of that loop.                                                      *)
(***************************************************************************)
C9_BreakLeavesLoop ==
    Eliminated =>
        \A d \in 1..Len(workflowAst) :
            \A i \in 1..Len(workflowAst[d].states) :
                LET b == workflowAst[d].states[i]
                    built == build(cast, routerFunc).states[d]
                    fuel == Len(built.states)
                    target == AfterLoop(built, workflowAst[d], b.bts[Len(b.bts)], fuel)
                IN  b.cls = "Break" => LeavesLoop(workflowAst[d], b, b.nxt, target, fuel)

(***************************************************************************)
(* C10.  The state of a Return is a terminal Pass, after the build and     *)
(* after pass elimination: end = true and no next.                         *)
(***************************************************************************)
C10_ReturnIsTerminal ==
    (Built \/ Eliminated) =>
        \A s \in AllStates :
            s.src.k = "Return" => (s.typ = "Pass" /\ s.end /\ ~HasNext(s))

\* s is the state emitted for a cohesion.Lambda / cohesion.activity call
IsTaskCall(s) ==
    /\ s.typ = "Task"
    /\ s.src.k = "Call"
    /\ Len(s.src.func) > 1
    /\ s.src.func[2] \in {Nm("Lambda"), Nm("activity")}

(***************************************************************************)
(* C11.  The state emitted for a cohesion.Lambda / cohesion.activity call  *)
(* with one positional argument a has input path $.env.a, and the state    *)
(* emitted for a call with no positional argument has the empty object as  *)
(* parameters, whether the result of the call is assigned or discarded.    *)
(***************************************************************************)
C11_InputFromArgument ==
    Built =>
        \A s \in AllStates :
            IsTaskCall(s) =>
                /\ Len(s.src.args) = 1 => s.inputPath = <<"$", "env", s.src.args[1]>>
                /\ Len(s.src.args) = 0 => s.parameters = ListOf(<<>>)


(***************************************************************************)
(* C12.  The Task state emitted for an assignment target = call has result *)
(* path $.env.target, whatever the callee (a cohesion.Lambda or            *)
(* cohesion.activity task or a generated helper), and the Task state       *)
(* emitted for a call in void context has result path $.env.discard.       *)
(***************************************************************************)
C12_ResultToTarget ==
    Built =>
        \A s \in AllStates :
            (s.typ = "Task" /\ s.src.k = "Call") =>
                s.resultPath = <<"$", "env", IF s.tgt = NoVar THEN "discard" ELSE s.tgt>>


\* the keyword names that cast.transform_green_node knows
KnownKeywords == {"timeout", "timeoutseconds", "heartbeat", "heartbeatseconds", "retry"}
\* the call has a keyword argument of an unknown name
HasUnknownKeyword(node) ==
    \E i \in 1..Len(node.keywords) : lower(node.keywords[i].arg) \notin KnownKeywords

(***************************************************************************)
(* C13.  A green call with a keyword argument other than timeout /         *)
(* timeoutSeconds, heartbeat / heartbeatSeconds or retry makes the CIR     *)
(* build raise an error: no CIR Call is returned for it.                   *)
(***************************************************************************)
C13_UnknownKeywordFails ==
    (greenResult # NotCalled /\ HasUnknownKeyword(greenNode)) => greenResult = Raised


\* pass elimination has run and has left a RemovablePass it could not remove
ElisionFailed ==
    /\ pc \in {"asfast.remove_pass", "asfast.build_graphs", "asfast.emit_json"}
    /\ \E s \in AllStates : s.cls = "RemovablePass"

(***************************************************************************)
(* C14.  When pass elimination cannot remove a RemovablePass the           *)
(* compilation aborts: no later pass runs, and no workflow graph and no    *)
(* workflow JSON is produced.                                              *)
(***************************************************************************)
C14_ElisionFailureIsFatal ==
    ElisionFailed =>
        /\ pc = "asfast.remove_pass"
        /\ workflowGraphs = <<>>
        /\ files = <<>>


\* the start state is a state of the workflow, no state has both next and
\* end, and every next names a state of the workflow
WellFormed(asf) ==
    /\ asf.startState \in NamesOf(asf)
    /\ \A i \in 1..Len(asf.states) :
          /\ ~(HasNext(asf.states[i]) /\ asf.states[i].end)
          /\ HasNext(asf.states[i]) => asf.states[i].nxt \in NamesOf(asf)

(***************************************************************************)
(* C15.  The workflows that the build hands on have passed validation, and *)
(* validation raises an error exactly for the workflows that are not well  *)
(* formed: the start state is no state of the workflow, or a state has     *)
(* both next and end, or a next names no state of the workflow.            *)
(***************************************************************************)
C15_BuildValidates ==
    Built =>
        \A d \in 1..Len(workflowAst) :
            /\ ~validate(workflowAst[d])
            /\ validate(workflowAst[d]) <=> ~WellFormed(workflowAst[d])


\* the second compilation of the process has ended
SecondRunEnded == run = 2 /\ pc \in {"asfast.emit_json", "error"}

(***************************************************************************)
(* C16.  The second compilation of the same source with the same Config in *)
(* the same process ends as the first did, with the same workflow JSON,    *)
(* the same graphs and the same helper functions, and it has handed out    *)
(* the same fresh names, helper names and state names.                     *)
(***************************************************************************)
C16_SameOutputTwice ==
    SecondRunEnded =>
        firstRun = Outcome(pc, pythonFunctions, routerFunc, workflowGraphs, files,
                           names, globals.used)

\* a second compilation has written a workflow whose helper, router and
\* state names were generated
C16_Witness ==
    /\ SecondRunEnded
    /\ pc = "asfast.emit_json"
    /\ Len(files) > 0
    /\ Len(pythonFunctions) > 0
    /\ Truthy(routerFunc)
    /\ \E n \in globals.used : n = Suffixed(Nm("foo"), 1)


(***************************************************************************)
(* C17.  Variable rewrite run on a tree that it has already rewritten      *)
(* leaves the tree unchanged: the tree after the second run is the tree    *)
(* after the first run.                                                    *)
(***************************************************************************)
C17_RewriteIdempotent ==
    passRuns = 2 => pyTree = rewrite(pySource)


(***************************************************************************)
(* C18.  Pass elimination run on its own output changes nothing: the       *)
(* states, their next / end, choice rules and defaults, and their layout   *)
(* rows are those of the first run.                                        *)
(***************************************************************************)
C18_RemovePassIdempotent ==
    Eliminated => remove_pass(workflowAst) = workflowAst

\* pass elimination has removed two placeholders or more from a workflow and
\* has left one in it
C18_Witness ==
    /\ Eliminated
    /\ \E d \in 1..Len(workflowAst) :
          /\ Len(workflowAst[d].states) + 2 <= Len(build(cast, routerFunc).states[d].states)
          /\ \E i \in 1..Len(workflowAst[d].states) :
                workflowAst[d].states[i].cls = "RemovablePass"


(***************************************************************************)
(* C20.  The Pass emitted for a return of the variable v has input path    *)
(* $.env.v, and the Pass emitted for a return without a value has no       *)
(* input path.                                                             *)
(***************************************************************************)
C20_ReturnInputPath ==
    Built =>
        \A s \in AllStates :
            s.src.k = "Return" =>
                /\ s.typ = "Pass"
                /\ s.inputPath = IF s.src.ret = NoVar THEN EmptyStr
                                 ELSE <<"$", "env", s.src.ret>>


(***************************************************************************)
(* C19.  The coloring pass run on a tree that it has already colored       *)
(* changes no color: the tree after the second run, colors included, is    *)
(* the tree after the first run.                                           *)
(***************************************************************************)
C19_ColoringIdempotent ==
    passRuns = 2 => pyTree = bluegreen(pySource)

\* the statement of f, green or blue
ColorOfStmt(i) == pyTree.kids[1].kids[i].color
\* the coloring has run twice on a module where f is green only because it
\* calls g, and where a return of f comes before the statement that makes f
\* green
C19_Witness ==
    /\ passRuns = 2
    /\ pyTree.kids[1].color /\ pyTree.kids[2].color
    /\ Len(pyTree.kids[1].kids) = 2
    /\ pyTree.kids[1].kids[1].cls = "Return" /\ ColorOfStmt(1)
    /\ pyTree.kids[1].kids[2] = [PyExpr([PyCallG EXCEPT !.color = TRUE]) EXCEPT !.color = TRUE]

\* the names of the placeholders pass elimination has taken out of a workflow
RemovedNames(built, final) == NamesOf(built) \ NamesOf(final)
RECURSIVE Chase(_, _, _, _)
\* where an edge to `name' leads once the removed placeholders are skipped:
\* the first state still there on the path of next edges of the built
\* workflow, or no state, with the end flag of the placeholder the path
\* stops in
Chase(built, removed, name, fuel) ==
    IF name \notin removed THEN [target |-> name, end |-> FALSE]
    ELSE IF fuel = 0 \/ ~HasNext(Named(built, name))
    THEN [target |-> EmptyStr, end |-> Named(built, name).end]
    ELSE Chase(built, removed, Named(built, name).nxt, fuel - 1)
\* end = true and no next
Terminal(s) == s.end /\ ~HasNext(s)
\* the edges of the surviving state named `name' are those of the built
\* workflow with the removed placeholders skipped
EdgesPreserved(built, final, name) ==
    LET s0 == Named(built, name)
        s1 == Named(final, name)
        removed == RemovedNames(built, final)
        fuel == Len(built.states)
    IN  /\ HasNext(s0) =>
              LET r == Chase(built, removed, s0.nxt, fuel)
              IN  /\ r.target # EmptyStr => s1.nxt = r.target
                  /\ Terminal(s1) <=> (r.target = EmptyStr /\ r.end)
        /\ s0.cls = "ChoiceState" =>
              /\ s1.default = Chase(built, removed, s0.default, fuel).target
              /\ Len(s1.choices) = Len(s0.choices)
              /\ \A c \in 1..Len(s0.choices) :
                    s1.choices[c].nxt = Chase(built, removed, s0.choices[c].nxt, fuel).target

RECURSIVE ChaseKept(_, _, _, _)
\* as Chase, but a placeholder without a next ends the path whether it was
\* removed or kept
ChaseKept(built, removed, name, fuel) ==
    LET p == Named(built, name)
    IN  IF p.cls = "RemovablePass" /\ ~HasNext(p)
        THEN [target |-> IF name \in removed THEN EmptyStr ELSE name, end |-> p.end, stop |-> TRUE]
        ELSE IF name \notin removed THEN [target |-> name, end |-> FALSE, stop |-> FALSE]
        ELSE IF fuel = 0 THEN [target |-> EmptyStr, end |-> p.end, stop |-> TRUE]
        ELSE ChaseKept(built, removed, p.nxt, fuel - 1)
\* the edges of the surviving state named `name': a next edge whose path
\* ends in a placeholder without a next is cut and the state made terminal,
\* whether that placeholder could be removed or not
EdgesPreservedOrCut(built, final, name) ==
    LET s0 == Named(built, name)
        s1 == Named(final, name)
        removed == RemovedNames(built, final)
        fuel == Len(built.states)
    IN  /\ HasNext(s0) =>
              LET r == ChaseKept(built, removed, s0.nxt, fuel)
              IN  IF r.stop /\ s0.cls # "Break"
                  THEN Terminal(s1)
                  ELSE s1.nxt = r.target
        /\ s0.cls = "ChoiceState" =>
              /\ s1.default = Chase(built, removed, s0.default, fuel).target
              /\ Len(s1.choices) = Len(s0.choices)
              /\ \A c \in 1..Len(s0.choices) :
                    s1.choices[c].nxt = Chase(built, removed, s0.choices[c].nxt, fuel).target

RECURSIVE CallsIn(_)
\* the Call nodes in the tree of a node, the node included
CallsIn(node) ==
    (IF node.cls = "Call" THEN {node} ELSE {})
        \cup UNION {CallsIn(node.kids[i]) : i \in 1..Len(node.kids)}
        \cup UNION {CallsIn(node.handlers[i]) : i \in 1..Len(node.handlers)}
\* the function definitions of a module
FunctionsOf(tree) == {tree.kids[i] : i \in {j \in 1..Len(tree.kids) : tree.kids[j].cls = "FunctionDef"}}
\* the names of the green functions of a module
GreenFunctions(tree) == {fn.id : fn \in {x \in FunctionsOf(tree) : is_green(x)}}

(***************************************************************************)
(* C22.  When the coloring has reached its fixpoint, every Call whose      *)
(* callee is the bare name of a green function is green, and so is the     *)
(* function that contains the call, whatever the order of the function     *)
(* definitions and wherever the call stands: as a statement, as a          *)
(* right-hand side, as an argument of another call or as a return value.   *)
(***************************************************************************)
C22_CallsOfGreenAreGreen ==
    passRuns >= 1 =>
        \A fn \in FunctionsOf(pyTree) :
            \A c \in CallsIn(fn) :
                (Len(c.func) = 1 /\ c.func[1] \in GreenFunctions(pyTree)) =>
                    (is_green(c) /\ is_green(fn))

RECURSIVE NodeCount(_)
\* the number of nodes of a tree
NodeCount(node) ==
    LET RECURSIVE sum(_, _)
        sum(nodes, i) == IF i > Len(nodes) THEN 0 ELSE NodeCount(nodes[i]) + sum(nodes, i + 1)
    IN  1 + sum(node.kids, 1) + sum(node.handlers, 1)
RECURSIVE GreenCount(_)
\* the number of green nodes of a tree
GreenCount(node) ==
    LET RECURSIVE sum(_, _)
        sum(nodes, i) == IF i > Len(nodes) THEN 0 ELSE GreenCount(nodes[i]) + sum(nodes, i + 1)
    IN  (IF is_green(node) THEN 1 ELSE 0) + sum(node.kids, 1) + sum(node.handlers, 1)
RECURSIVE StaysGreen(_, _)
\* b is the tree a with some more nodes green: no green node of a is blue in b
StaysGreen(a, b) ==
    /\ b.cls = a.cls /\ b.id = a.id /\ b.func = a.func
    /\ is_green(a) => is_green(b)
    /\ Len(b.kids) = Len(a.kids) /\ Len(b.handlers) = Len(a.handlers)
    /\ \A i \in 1..Len(a.kids) : StaysGreen(a.kids[i], b.kids[i])
    /\ \A i \in 1..Len(a.handlers) : StaysGreen(a.handlers[i], b.handlers[i])
\* what a walk of the loop does to the tree
WalkColorsMore ==
    walks' = walks + 1 =>
        /\ StaysGreen(pyTree, pyTree')
        /\ (walker'.changes_made /\ ~walker'.err) => GreenCount(pyTree') > GreenCount(pyTree)

(***************************************************************************)
(* C23.  The coloring loop terminates: no walk turns a green node blue,    *)
(* every walk after which the loop goes on has made at least one more node *)
(* green, and the loop is left after at most as many walks as the tree has *)
(* nodes, plus one: while the loop is not left the number of walks made is *)
(* at most the number of nodes.                                            *)
(***************************************************************************)
C23_ColoringTerminates ==
    /\ [][WalkColorsMore]_vars
    /\ [](walks <= NodeCount(pySource) + 1)
    /\ [](~LoopExited => walks <= NodeCount(pySource))

\* the loop has been left after four walks, three of which colored nodes
C23_Witness ==
    /\ LoopExited /\ ~walker.err
    /\ walks >= 4
    /\ GreenCount(pyTree) > GreenCount(pySource) + 3

\* the call lifting of the module is done
Lifted == pc = "lift.calls"
\* the statement sequences _transform_sequence was given while the module was
\* lifted, each with the sequence it returned
LiftedSequences ==
    With(calls(bluegreen(pySource), NameWalker(pySource)).l.log, LAMBDA log :
        {log[i] : i \in 1..Len(log)})
RECURSIVE Embeds(_, _, _, _)
\* the statements a[i..] occur in b[j..], in their order
Embeds(a, b, i, j) ==
    IF i > Len(a) THEN TRUE
    ELSE IF j > Len(b) THEN FALSE
    ELSE IF a[i] = b[j] THEN Embeds(a, b, i + 1, j + 1)
    ELSE Embeds(a, b, i, j + 1)
\* the blue statements of a sequence, in their order
BlueOf(stmts) == SelectSeq(stmts, LAMBDA st : ~is_green(st))

(***************************************************************************)
(* C24.  Call lifting leaves what is blue unchanged: the blue statements   *)
(* of every statement sequence that is lifted are in the rewritten         *)
(* sequence, unmodified and in their order, and a blue function of the     *)
(* module is in the lifted module as it was.                               *)
(***************************************************************************)
C24_BlueUnchanged ==
    Lifted =>
        /\ \A p \in LiftedSequences : Embeds(BlueOf(p.src), p.out, 1, 1)
        /\ \A fn \in FunctionsOf(bluegreen(pySource)) :
              ~is_green(fn) => fn \in FunctionsOf(pyTree)

RECURSIVE HasGreenCall(_)
\* a green Call is in the tree of the node
HasGreenCall(node) ==
    \/ node.cls = "Call" /\ is_green(node)
    \/ \E i \in 1..Len(node.kids) : HasGreenCall(node.kids[i])
    \/ \E i \in 1..Len(node.handlers) : HasGreenCall(node.handlers[i])
RECURSIVE StandaloneCalls(_)
\* the green Calls of a statement are statements of their own: the value of
\* an expression statement or the whole right-hand side of an assignment
StandaloneCalls(st) ==
    CASE st.cls \in {"Expr", "Assign"} ->
            LET value == st.kids[Len(st.kids)]
            IN  IF value.cls = "Call"
                THEN \A i \in 1..Len(value.kids) : ~HasGreenCall(value.kids[i])
                ELSE ~HasGreenCall(value)
      [] st.cls = "Return" -> ~HasGreenCall(st)
      [] st.cls \in {"If", "While"} ->
            /\ ~HasGreenCall(st.kids[1])
            /\ \A i \in 2..Len(st.kids) : StandaloneCalls(st.kids[i])
      [] st.cls \in {"Try", "FunctionDef", "ExceptHandler"} ->
            /\ \A i \in 1..Len(st.kids) : StandaloneCalls(st.kids[i])
            /\ \A i \in 1..Len(st.handlers) : StandaloneCalls(st.handlers[i])
      [] OTHER -> TRUE

(***************************************************************************)
(* C25.  After call lifting every green Call of a green function is a      *)
(* statement of its own, an expression statement or the whole right-hand   *)
(* side of an assignment: no green Call is left inside another expression, *)
(* a call argument, the test of an if or a while, or a return value.       *)
(***************************************************************************)
C25_GreenCallsStandalone ==
    Lifted =>
        \A fn \in FunctionsOf(pyTree) : is_green(fn) => StandaloneCalls(fn)

(***************************************************************************)
(* C26.  After call lifting every positional argument of every green Call  *)
(* is a plain variable name.                                               *)
(***************************************************************************)
C26_ArgumentsAreNames ==
    Lifted =>
        \A c \in CallsIn(pyTree) :
            is_green(c) => \A i \in 1..Len(c.kids) : c.kids[i].cls = "Name"

RECURSIVE AssignsIn(_)
\* the Assign nodes in the tree of a node
AssignsIn(node) ==
    (IF node.cls = "Assign" THEN {node} ELSE {})
        \cup UNION {AssignsIn(node.kids[i]) : i \in 1..Len(node.kids)}
        \cup UNION {AssignsIn(node.handlers[i]) : i \in 1..Len(node.handlers)}

(***************************************************************************)
(* C27.  After call lifting every green assignment has a Call as its       *)
(* right-hand side: an assignment with another right-hand side, those the  *)
(* lifting pass has made included, is blue.                                *)
(***************************************************************************)
C27_GreenAssignHasCall ==
    Lifted =>
        \A a \in AssignsIn(pyTree) : is_green(a) => a.kids[2].cls = "Call"

(***************************************************************************)
(* Nested tries (aws/asfast.py transform_cast_try).                        *)
(***************************************************************************)
RECURSIVE EnclosedIn(_, _), EnclosedOf(_, _)
\* the calls of a statement list, each with the except clauses of the try
\* bodies that enclose it, outermost try first, the clauses of one try in
\* source order
EnclosedIn(stmts, encl) == UNION {EnclosedOf(stmts[i], encl) : i \in 1..Len(stmts)}
EnclosedOf(node, encl) ==
    CASE node.k = "Call" -> {[node |-> node, encl |-> encl]}
      [] node.k = "Assign" ->
            IF node.value[1].k = "Call"
            THEN {[node |-> node.value[1], encl |-> encl]} ELSE {}
      [] node.k = "Try" ->
            EnclosedIn(node.body, encl \o node.handlers)
                \cup UNION {EnclosedIn(node.handlers[j].body, encl)
                            : j \in 1..Len(node.handlers)}
      [] node.k \in {"Module", "Def", "If", "WhileLoop"} ->
            EnclosedIn(node.body, encl) \cup EnclosedIn(node.orelse, encl)
      [] OTHER -> {}
\* the error types some enclosing clause lists
Caught(encl) == UNION {TypesOf(encl[i]) : i \in 1..Len(encl)}
\* the topmost enclosing clause that lists an error type
Winner(encl, typ) ==
    encl[CHOOSE i \in 1..Len(encl) :
            /\ typ \in TypesOf(encl[i])
            /\ \A j \in (i + 1)..Len(encl) : typ \notin TypesOf(encl[j])]
\* the call a statement is translated as, if it is a call or assigns one
CallOf(stmt) ==
    IF stmt.k = "Call" THEN stmt
    ELSE IF stmt.k = "Assign" /\ stmt.value[1].k = "Call" THEN stmt.value[1]
    ELSE CastNode("None")
\* a state carries the catch entries of the clauses that enclose its call:
\* one entry per error type caught, leading to the first state of the
\* topmost clause that lists the type (compared when that clause starts
\* with a call)
CarriesCatch(s, encl) ==
    LET entries == IF s.catch.none THEN <<>> ELSE s.catch.items
    IN  /\ {entries[i].ErrorEquals[1] : i \in 1..Len(entries)} = Caught(encl)
        /\ \A i \in 1..Len(entries) :
              LET first == CallOf(Winner(encl, entries[i].ErrorEquals[1]).body[1])
              IN  first.k = "Call" =>
                      \E t \in AllStates :
                          t.src = first /\ t.name = entries[i].Next

\* C28: nested tries compose.  Every Task state built from a cohesion.activity
\* or cohesion.Lambda call carries exactly the catch entries of the except
\* clauses of the try bodies its call is nested in: a call of the outer try
\* body that follows a nested try carries the outer clauses' entries, a call
\* of the nested try body carries inner and outer entries with the inner
\* clause winning a shared type, and a call of an except clause's body is
\* not caught by the clauses of the same try.
C28_NestedTriesCompose ==
    Built =>
        \A s \in AllStates :
            (s.typ = "Task" /\ s.src.k = "Call" /\ s.src.func[1] = Nm("cohesion")) =>
                \E e \in EnclosedIn(cast.body, <<>>) :
                    e.node = s.src /\ CarriesCatch(s, e.encl)

(***************************************************************************)
(* Helper names (cast.py PythonASTLifter).                                 *)
(***************************************************************************)
RECURSIVE HelperCallsIn(_), HelperCallsOf(_)
\* the names of the helpers called in a statement list, the bodies of except
\* clauses included
HelperCallsIn(stmts) == UNION {HelperCallsOf(stmts[i]) : i \in 1..Len(stmts)}
HelperCallsOf(node) ==
    IF node.k = "Call"
    THEN IF Len(node.func) = 1 THEN {node.func[1]} ELSE {}
    ELSE HelperCallsIn(node.value) \cup HelperCallsIn(node.body)
             \cup HelperCallsIn(node.orelse)
             \cup UNION {HelperCallsIn(node.handlers[j].body)
                         : j \in 1..Len(node.handlers)}
\* a helper name is <function name>_func_<N>
PrefixedBy(helperName, defName) ==
    /\ Len(helperName) = Len(defName) + 2
    /\ SubSeq(helperName, 1, Len(defName) + 1) = defName \o <<"func">>
HelpersExtracted == pc = "cast.remove_python"

\* C29: the name of every helper that helper extraction makes of a RawBlock
\* of a workflow function starts with the name of that function followed by
\* _func_, also when the module defines two workflow functions or starts with
\* a statement that is not a function definition.
C29_HelperNamePrefixed ==
    HelpersExtracted =>
        \A d \in 1..Len(cast.body) :
            cast.body[d].k = "Def" =>
                \A h \in HelperCallsIn(cast.body[d].body) :
                    PrefixedBy(h, cast.body[d].name)

(***************************************************************************)
(* The fresh-name supply (gensym.py GenSym).                               *)
(***************************************************************************)
RECURSIVE IdentifiersOf(_)
\* the identifiers of a program: the variables and functions it names, the
\* functions it defines, their parameters and the names its except clauses
\* bind
IdentifiersOf(node) ==
    (IF node.cls = "Name" THEN {node.id} ELSE {})
        \cup (IF node.cls = "FunctionDef" THEN {Nm(node.id)} ELSE {})
        \cup {node.bound[i] : i \in 1..Len(node.bound)}
        \cup UNION {IdentifiersOf(node.kids[i]) : i \in 1..Len(node.kids)}
        \cup UNION {IdentifiersOf(node.handlers[i]) : i \in 1..Len(node.handlers)}
\* a request returns prefix_N for the smallest N >= 1 whose prefix_N is not
\* in the name set, and adds it to the set
SmallestFree ==
    requests' # requests =>
        LET r == requests'[Len(requests')]
        IN  /\ requests' = Append(requests, r)
            /\ names' = names \cup {r.name}
            /\ \E n \in 1..Len(Decimal) :
                  /\ r.name = Suffixed(r.prefix, n)
                  /\ r.name \notin names
                  /\ \A m \in 1..(n - 1) : Suffixed(r.prefix, m) \in names
\* no name is handed out twice
HandedOutOnce ==
    \A i, j \in 1..Len(requests) : requests[i].name = requests[j].name => i = j
\* no name handed out is an identifier of the input program
HandedOutFresh ==
    \A i \in 1..Len(requests) : requests[i].name \notin IdentifiersOf(pySource)

\* C30: a fresh-name request with prefix p returns p_N for the smallest
\* N >= 1 such that p_N is not in the name set and adds it to the set; over
\* any sequence of requests no name is handed out twice and no name handed
\* out is an identifier of the input program (a variable, a function, a
\* parameter or the name an except clause binds).
C30_FreshNames ==
    /\ [][SmallestFree]_vars
    /\ [](HandedOutOnce /\ HandedOutFresh)

============================================================================
